---- MODULE Spec2Model ----
(***************************************************************************)
(* Content-addressed de-duplication store: the in-memory SimulatedDatabase *)
(* (src/src/lib/database.ts), the upload handler POST /api/upload with its *)
(* background processing job (src/src/app/api/upload/route.ts) and the     *)
(* helpers of src/src/lib/fileUtils.ts.                                    *)
(*                                                                         *)
(* The handlers are async functions on one event loop: the code between    *)
(* two awaits runs atomically, and an await is a point where another        *)
(* handler or job may run.  Each action below is one such atomic piece.    *)
(***************************************************************************)
EXTENDS Integers, Sequences, FiniteSets, TLC

(* ---------------------------------------------------------------------- *)
(* Bounds of the model                                                     *)
(* ---------------------------------------------------------------------- *)
NumRequests == 3
NumJobRequests == 2
MaxClock == 1
MaxCalls == 4
MaxChunks == 1
MaxSize == 6
MaxRecords == 3
MaxArg == 3
MaxDigits == 6

Requests == 1..NumRequests
JobRequests == 1..NumJobRequests

(* ---------------------------------------------------------------------- *)
(* Uploaded content.  A buffer is the byte string `text` repeated `repeat` *)
(* times; Sha256Raw holds the real SHA-256 digests of these byte strings.  *)
(* ---------------------------------------------------------------------- *)
BufContent1 == [text |-> "content1", repeat |-> 1]
BufContent2 == [text |-> "content2", repeat |-> 200]
BufEmpty == [text |-> "", repeat |-> 0]
BufHuge == [text |-> "a", repeat |-> 104857601]
BufHello == [text |-> "Hello, World!", repeat |-> 1]

Buffers == {BufContent1, BufContent2, BufEmpty, BufHuge}

ByteLength(buffer) == Len(buffer.text) * buffer.repeat

(* SHA-256: the 32 bytes of the digest of the buffer's bytes *)
Sha256Raw(buffer) ==
  CASE buffer = BufContent1 ->
         << 208, 180, 37, 224, 14, 21, 160, 211, 107, 155, 54, 31, 2, 186, 182, 53,
            99, 174, 214, 203, 70, 101, 8, 57, 5, 56, 108, 85, 213, 182, 121, 250 >>
    [] buffer = BufContent2 ->
         << 174, 84, 75, 84, 173, 229, 183, 120, 50, 29, 29, 205, 4, 124, 163, 185,
            236, 48, 72, 175, 189, 75, 229, 61, 249, 118, 214, 0, 221, 22, 178, 254 >>
    [] buffer = BufEmpty ->
         << 227, 176, 196, 66, 152, 252, 28, 20, 154, 251, 244, 200, 153, 111, 185, 36,
            39, 174, 65, 228, 100, 155, 147, 76, 164, 149, 153, 27, 120, 82, 184, 85 >>
    [] buffer = BufHuge ->
         << 112, 10, 42, 25, 255, 122, 229, 158, 119, 186, 228, 229, 4, 55, 27, 110,
            95, 240, 241, 105, 143, 2, 207, 80, 249, 154, 243, 242, 11, 2, 166, 251 >>
    [] buffer = BufHello ->
         << 223, 253, 96, 33, 187, 43, 213, 176, 175, 103, 98, 144, 128, 158, 195, 165,
            49, 145, 221, 129, 199, 247, 10, 75, 40, 104, 138, 54, 33, 130, 152, 111 >>

(* digest('hex'): every byte of the digest as two lowercase hexadecimal
   digits, the high four bits first *)
HexDigit(n) == SubSeq("0123456789abcdef", n + 1, n + 1)

RECURSIVE HexEncode(_)
HexEncode(raw) ==
  IF Len(raw) = 0 THEN ""
  ELSE IF Len(raw) = 1 THEN HexDigit(raw[1] \div 16) \o HexDigit(raw[1] % 16)
  ELSE LET middle == Len(raw) \div 2
       IN HexEncode(SubSeq(raw, 1, middle))
            \o HexEncode(SubSeq(raw, middle + 1, Len(raw)))

(* the contents hashed anywhere in this module, and their digests in hex *)
HashBuffers == Buffers \cup {BufHello}

Sha256Hex == [buffer \in HashBuffers |-> HexEncode(Sha256Raw(buffer))]

SHA256(buffer) == Sha256Hex[buffer]

(* A File of the multipart form: name, declared type, bytes. *)
UploadFile(name, type, buffer) ==
  [name |-> name, type |-> type, size |-> ByteLength(buffer), buffer |-> buffer]

Uploads ==
  { UploadFile("a.txt", "text/plain", BufContent1),
    UploadFile("b.txt", "", BufContent1),
    UploadFile("c.pdf", "application/pdf", BufContent2),
    UploadFile("empty.txt", "text/plain", BufEmpty),
    UploadFile("huge.bin", "application/octet-stream", BufHuge) }

NoUpload == UploadFile("", "", BufEmpty)

(* formData.get('file'): <<>> when the field is missing, <<file>> otherwise *)
FormData == {<<>>} \cup { <<f>> : f \in Uploads }

Statuses == {"pending", "processing", "completed", "failed"}
Terminal == {"completed", "failed"}

(* An optional number: <<>> is undefined, <<n>> is the number n. *)
Undefined == <<>>
Some(n) == <<n>>

VARIABLES
  files,        \* SimulatedDatabase.files: id -> FileRecord
  hashIndex,    \* SimulatedDatabase.hashIndex: file_hash -> id
  now,          \* the wall clock read by new Date()
  pc,           \* position of each POST /api/upload handler
  upload,       \* the file in the form of each handler's request
  fileHash,     \* POST: const fileHash
  existingFile, \* POST: const existingFile (id of the record, 0 for null)
  newFile,      \* POST: const newFile (id of the record, 0 before insert)
  response,     \* the response each handler returned
  job,          \* processFileInBackground: id -> position and result
  lastCall      \* last direct call of a store operation and its outcome

vars == <<files, hashIndex, now, pc, upload, fileHash, existingFile, newFile,
          response, job, lastCall>>

storeVars == <<files, hashIndex>>
postVars == <<pc, upload, fileHash, existingFile, newFile, response>>

(* ---------------------------------------------------------------------- *)
(* src/src/lib/fileUtils.ts                                                *)
(* ---------------------------------------------------------------------- *)
Max(a, b) == IF a >= b THEN a ELSE b
Min(a, b) == IF a <= b THEN a ELSE b

(* computeFileHash, as a mutant would have it: the digest does not depend on
   the bytes *)
computeFileHash_Const(fileBuffer) == SHA256(BufContent1)

(* createHash('sha256'), line 18: a new Hash object that has absorbed nothing
   and whose digest has not been taken *)
createHash == [absorbed |-> <<>>, finalized |-> FALSE]

(* the content a Hash object has absorbed: update() was called with whole
   buffers, at most one of them non-empty *)
Content(absorbed) ==
  LET nonEmpty == SelectSeq(absorbed, LAMBDA chunk : ByteLength(chunk) > 0)
  IN CASE Len(nonEmpty) = 0 -> BufEmpty
       [] Len(nonEmpty) = 1 -> nonEmpty[1]

(* lines 22-27 on the Hash object `hash`: hash.update(fileBuffer), then
   hash.digest('hex').  digest() finalizes the object, and update() on a
   finalized object throws, which rejects the promise computeFileHash
   returned. *)
HashBuffer(hash, fileBuffer) ==
  IF hash.finalized
    THEN [hash |-> hash, digest |-> "", threw |-> TRUE]
    ELSE LET absorbed == Append(hash.absorbed, fileBuffer)
         IN [ hash |-> [absorbed |-> absorbed, finalized |-> TRUE],
              digest |-> SHA256(Content(absorbed)),
              threw |-> FALSE ]

(* computeFileHash, lines 15-28: every call works on a Hash object of its
   own; there is no await inside, the call runs to its end in one piece *)
computeFileHash(fileBuffer) == HashBuffer(createHash, fileBuffer).digest

DefaultMaxSizeBytes == 100 * 1024 * 1024

(* validateFile, as a mutant would have it: a file of exactly the maximum
   size is rejected *)
validateFile_Exclusive(file, maxSizeBytes) ==
  IF file.size >= maxSizeBytes
    THEN [isValid |-> FALSE, error |-> "exceeds maximum allowed size"]
  ELSE IF file.size = 0
    THEN [isValid |-> FALSE, error |-> "File is empty"]
  ELSE [isValid |-> TRUE, error |-> ""]

(* validateFile, as a mutant would have it: no check for an empty file *)
validateFile_NoEmptyCheck(file, maxSizeBytes) ==
  IF file.size > maxSizeBytes
    THEN [isValid |-> FALSE, error |-> "exceeds maximum allowed size"]
  ELSE [isValid |-> TRUE, error |-> ""]

(* validateFile: the size check comes first, then the empty check *)
validateFile(file, maxSizeBytes) ==
  IF file.size > maxSizeBytes
    THEN [isValid |-> FALSE, error |-> "exceeds maximum allowed size"]
  ELSE IF file.size = 0
    THEN [isValid |-> FALSE, error |-> "File is empty"]
  ELSE [isValid |-> TRUE, error |-> ""]

(* generateFileMetadata, as a mutant would have it: the declared type is
   stored as it is *)
generateFileMetadata_KeepType(file, hash) ==
  [ file_name |-> file.name,
    file_hash |-> hash,
    file_size |-> file.size,
    mime_type |-> file.type,
    processing_status |-> "pending" ]

generateFileMetadata(file, hash) ==
  [ file_name |-> file.name,
    file_hash |-> hash,
    file_size |-> file.size,
    mime_type |-> IF file.type = "" THEN "application/octet-stream" ELSE file.type,
    processing_status |-> "pending" ]

(* simulateRAGProcessing, as a mutant would have it: the number of chunks is
   rounded up *)
simulateRAGProcessing_RoundUp(fileSize) ==
  [success |-> TRUE, chunkCount |-> Max(1, (fileSize + 666) \div 667)]

(* simulateRAGProcessing, after its timer: always success *)
simulateRAGProcessing(fileSize) ==
  [success |-> TRUE, chunkCount |-> Max(1, fileSize \div 667)]

(* formatFileSize, line 160 *)
Units == <<"B", "KB", "MB", "GB", "TB">>

(* formatFileSize, lines 164-165: the 1024 that size is compared with and
   divided by *)
Base == 1024

(* A byte count can exceed what the checker's integers hold (1024^4 is 2^40),
   so a non-negative integer Number is held as the sequence of its digits in
   base 1024, least significant first and without leading zeros: 0 is <<>>,
   1024 is <<0, 1>>.  Base1024 gives the digits of a small integer,
   Value1024 the integer of a few digits. *)
RECURSIVE Base1024(_)
Base1024(n) ==
  IF n = 0 THEN <<>> ELSE <<n % Base>> \o Base1024(n \div Base)

RECURSIVE Value1024(_)
Value1024(digits) ==
  IF digits = <<>> THEN 0 ELSE Head(digits) + Base * Value1024(Tail(digits))

(* formatFileSize, lines 164-167, as a mutant would have it: the loop goes on
   only while size is above 1024 *)
RECURSIVE FormatLoop_Above(_, _, _)
FormatLoop_Above(int, frac, unitIndex) ==
  IF /\ Len(int) >= 2
     /\ ~(int = <<0, 1>> /\ \A i \in 1..Len(frac) : frac[i] = 0)
     /\ unitIndex < Len(Units) - 1
    THEN FormatLoop_Above(Tail(int), <<Head(int)>> \o frac, unitIndex + 1)
    ELSE [int |-> int, frac |-> frac, unitIndex |-> unitIndex]

(* formatFileSize, lines 164-167: size is divided by 1024 while it is at least
   1024 and a larger unit is left.  size is int + 0.frac: int holds the digits
   of its integer part, frac those after the point, most significant first.
   size >= 1024 when the integer part has two digits or more; size /= 1024
   moves the lowest digit of the integer part behind the point, which is what
   the division does to a binary floating-point number too: it is exact. *)
RECURSIVE FormatLoop(_, _, _)
FormatLoop(int, frac, unitIndex) ==
  IF Len(int) >= 2 /\ unitIndex < Len(Units) - 1
    THEN FormatLoop(Tail(int), <<Head(int)>> \o frac, unitIndex + 1)
    ELSE [int |-> int, frac |-> frac, unitIndex |-> unitIndex]

(* 10 * 0.frac, as carry + 0.digits *)
RECURSIVE TimesTen(_)
TimesTen(frac) ==
  IF frac = <<>> THEN [carry |-> 0, digits |-> <<>>]
  ELSE LET rest == TimesTen(Tail(frac))
           v == Head(frac) * 10 + rest.carry
       IN [carry |-> v \div Base, digits |-> <<v % Base>> \o rest.digits]

(* size.toFixed(1), line 169: the number of tenths nearest to 0.frac, a half
   upwards (up to 10, which carries into the integer part) *)
Tenths(frac) ==
  LET t == TimesTen(frac)
  IN t.carry + (IF t.digits # <<>> /\ t.digits[1] >= Base \div 2 THEN 1 ELSE 0)

(* formatFileSize: the string `${size.toFixed(unitIndex > 0 ? 1 : 0)} ${unit}`
   as its parts, for the byte count with the digits bytes; with no division
   made, size is the integer it was and toFixed(0) prints it as it is *)
formatFileSize(bytes) ==
  LET end == FormatLoop(bytes, <<>>, 0)
      tenths == Tenths(end.frac)
  IN IF end.unitIndex > 0
       THEN [ whole |-> Value1024(end.int) + tenths \div 10,
              decimals |-> <<tenths % 10>>,
              unit |-> Units[end.unitIndex + 1] ]
       ELSE [whole |-> Value1024(end.int), decimals |-> <<>>, unit |-> Units[1]]

(* ---------------------------------------------------------------------- *)
(* src/src/lib/database.ts: SimulatedDatabase                              *)
(* ---------------------------------------------------------------------- *)
(* uuidv4(): a value no earlier call returned; records are never deleted *)
uuidv4 == Cardinality(DOMAIN files) + 1

(* lines 62-66: { id, ...fileData, created_at: new Date() }; the optional
   chunk_count of fileData is copied like the other fields *)
NewRecord(id, fileData, date) ==
  [ id |-> id,
    file_name |-> fileData.file_name,
    file_hash |-> fileData.file_hash,
    file_size |-> fileData.file_size,
    mime_type |-> fileData.mime_type,
    processing_status |-> fileData.processing_status,
    chunk_count |-> IF "chunk_count" \in DOMAIN fileData
                      THEN fileData.chunk_count ELSE Undefined,
    created_at |-> date ]

(* insertFile, as a mutant would have it: no uniqueness check *)
insertFile_NoCheck(fileData, date) ==
  LET id == uuidv4 IN
  [ threw |-> FALSE,
    id |-> id,
    files |-> (id :> NewRecord(id, fileData, date)) @@ files,
    hashIndex |-> (fileData.file_hash :> id) @@ hashIndex ]

(* insertFile, as a mutant would have it: the index is written before the
   uniqueness check throws *)
insertFile_WriteThenThrow(fileData, date) ==
  LET id == uuidv4 IN
  IF fileData.file_hash \in DOMAIN hashIndex
    THEN [ threw |-> TRUE, id |-> 0, files |-> files,
           hashIndex |-> (fileData.file_hash :> id) @@ hashIndex ]
    ELSE [ threw |-> FALSE,
           id |-> id,
           files |-> (id :> NewRecord(id, fileData, date)) @@ files,
           hashIndex |-> (fileData.file_hash :> id) @@ hashIndex ]

(* insertFile, as a mutant would have it: the hash index is not written *)
insertFile_NoIndex(fileData, date) ==
  IF fileData.file_hash \in DOMAIN hashIndex
    THEN [threw |-> TRUE, id |-> 0, files |-> files, hashIndex |-> hashIndex]
    ELSE LET id == uuidv4 IN
         [ threw |-> FALSE,
           id |-> id,
           files |-> (id :> NewRecord(id, fileData, date)) @@ files,
           hashIndex |-> hashIndex ]

(* insertFile, as a mutant would have it: a record with the same hash is
   replaced by the new one *)
insertFile_Replace(fileData, date) ==
  LET id == uuidv4
      kept == {i \in DOMAIN files : files[i].file_hash # fileData.file_hash}
  IN [ threw |-> FALSE,
       id |-> id,
       files |-> (id :> NewRecord(id, fileData, date)) @@ [i \in kept |-> files[i]],
       hashIndex |-> (fileData.file_hash :> id) @@ hashIndex ]

(* insertFile: the outcome of the call and the maps it leaves *)
insertFile(fileData, date) ==
  IF fileData.file_hash \in DOMAIN hashIndex
    THEN [threw |-> TRUE, id |-> 0, files |-> files, hashIndex |-> hashIndex]
    ELSE LET id == uuidv4 IN
         [ threw |-> FALSE,
           id |-> id,
           files |-> (id :> NewRecord(id, fileData, date)) @@ files,
           hashIndex |-> (fileData.file_hash :> id) @@ hashIndex ]

(* findByHash: the id of the record found, 0 for null *)
findByHash(hash) ==
  IF hash \notin DOMAIN hashIndex THEN 0
  ELSE IF hashIndex[hash] \in DOMAIN files THEN hashIndex[hash] ELSE 0

(* findById: the id of the record found, 0 for null *)
findById(id) == IF id \in DOMAIN files THEN id ELSE 0

(* Array.from(this.files.values()): the records in insertion order *)
FilesArray == [i \in 1..Cardinality(DOMAIN files) |-> files[i]]

(* the comparator (a, b) => b.created_at.getTime() - a.created_at.getTime()
   is negative, a sorts before b, exactly when a is newer than b *)
NewerFirst(a, b) == a.created_at > b.created_at

(* Array.prototype.sort with that comparator: newest first; the sort is
   stable, as is SortSeq, so records of the same date keep their order *)
SortNewestFirst(array) == SortSeq(array, NewerFirst)

(* Array.prototype.slice(start, end): a negative index counts from the end *)
Slice(array, start, end) ==
  LET len == Len(array)
      k == IF start < 0 THEN Max(len + start, 0) ELSE Min(start, len)
      final == IF end < 0 THEN Max(len + end, 0) ELSE Min(end, len)
  IN SubSeq(array, k + 1, final)

(* getAllFiles, as a mutant would have it: the records are not sorted *)
getAllFiles_Unsorted(limit, offset) ==
  Slice(FilesArray, offset, offset + limit)

(* getAllFiles, as a mutant would have it: the page is one record longer *)
getAllFiles_Overlap(limit, offset) ==
  Slice(SortNewestFirst(FilesArray), offset, offset + limit + 1)

(* getAllFiles(limit, offset) *)
getAllFiles(limit, offset) ==
  Slice(SortNewestFirst(FilesArray), offset, offset + limit)

(* updateProcessingStatus, as a mutant would have it: a record in a terminal
   status is left alone *)
updateProcessingStatus_KeepTerminal(id, status, chunkCount) ==
  IF id \in DOMAIN files /\ files[id].processing_status \notin Terminal
    THEN [files EXCEPT ![id].processing_status = status,
                       ![id].chunk_count =
                          IF chunkCount # Undefined THEN chunkCount ELSE @]
    ELSE files

(* updateProcessingStatus, as a mutant would have it: a record is created for
   an id that is not stored *)
updateProcessingStatus_Upsert(id, status, chunkCount) ==
  IF id \in DOMAIN files
    THEN [files EXCEPT ![id].processing_status = status,
                       ![id].chunk_count =
                          IF chunkCount # Undefined THEN chunkCount ELSE @]
    ELSE (id :> [ id |-> id, file_name |-> "", file_hash |-> "", file_size |-> 0,
                  mime_type |-> "", processing_status |-> status,
                  chunk_count |-> chunkCount, created_at |-> now ]) @@ files

(* updateProcessingStatus, as a mutant would have it: the status is written
   to every record *)
updateProcessingStatus_Every(id, status, chunkCount) ==
  IF id \in DOMAIN files
    THEN [ i \in DOMAIN files |->
             IF i = id
               THEN [files[i] EXCEPT !.processing_status = status,
                                     !.chunk_count =
                                        IF chunkCount # Undefined
                                          THEN chunkCount ELSE @]
               ELSE [files[i] EXCEPT !.processing_status = status] ]
    ELSE files

(* updateProcessingStatus, as a mutant would have it: the chunk count passed
   is added to the one stored *)
updateProcessingStatus_AddChunks(id, status, chunkCount) ==
  IF id \in DOMAIN files
    THEN [files EXCEPT ![id].processing_status = status,
                       ![id].chunk_count =
                          IF chunkCount # Undefined /\ @ # Undefined
                            THEN Some(@[1] + chunkCount[1])
                            ELSE IF chunkCount # Undefined THEN chunkCount ELSE @]
    ELSE files

(* updateProcessingStatus, as a mutant would have it: the chunk count is
   assigned even when none is passed *)
updateProcessingStatus_ClearChunks(id, status, chunkCount) ==
  IF id \in DOMAIN files
    THEN [files EXCEPT ![id].processing_status = status,
                       ![id].chunk_count = chunkCount]
    ELSE files

(* updateProcessingStatus: the files map it leaves *)
updateProcessingStatus(id, status, chunkCount) ==
  IF id \in DOMAIN files
    THEN [files EXCEPT ![id].processing_status = status,
                       ![id].chunk_count =
                          IF chunkCount # Undefined THEN chunkCount ELSE @]
    ELSE files

(* two tallies added up, key by key; a status has a key when either has *)
AddStats(a, b) ==
  [ status \in DOMAIN a \cup DOMAIN b |->
      (IF status \in DOMAIN a THEN a[status] ELSE 0)
        + (IF status \in DOMAIN b THEN b[status] ELSE 0) ]

(* getStats, lines 145-148: the loop over Array.from(this.files.values()),
   which holds the records in insertion order.  Each record adds 1 to the
   entry of its status, creating the entry when the status is met first; this
   is what the loop adds for the records first..last, the tally of the first
   half plus the tally of the second half. *)
RECURSIVE ProcessingStatsLoop(_, _)
ProcessingStatsLoop(first, last) ==
  IF first > last THEN <<>>
  ELSE IF first = last THEN (files[first].processing_status :> 1)
  ELSE LET middle == (first + last) \div 2
       IN CHOOSE tally \in
            { AddStats(a, b) : a \in {ProcessingStatsLoop(first, middle)},
                               b \in {ProcessingStatsLoop(middle + 1, last)} } : TRUE

(* getStats, as a mutant would have it: a status is counted once, however
   many records are in it *)
getStats_CountOnce ==
  [ totalFiles |-> Cardinality(DOMAIN files),
    uniqueHashes |-> Cardinality(DOMAIN hashIndex),
    processingStats |->
      [s \in {files[id].processing_status : id \in DOMAIN files} |-> 1] ]

(* getStats: processingStats has a key only for a status some record has *)
getStats ==
  [ totalFiles |-> Cardinality(DOMAIN files),
    uniqueHashes |-> Cardinality(DOMAIN hashIndex),
    processingStats |-> ProcessingStatsLoop(1, Cardinality(DOMAIN files)) ]

(* ---------------------------------------------------------------------- *)
(* Initial state: the singleton `db` right after module load               *)
(* ---------------------------------------------------------------------- *)
NoCall ==
  [ n |-> 0, op |-> "none", id |-> 0, file_hash |-> "", status |-> "",
    chunkCount |-> Undefined, threw |-> FALSE, before |-> "absent",
    beforeChunk |-> Undefined ]

NoFileInfo ==
  [ id |-> 0, name |-> "", hash |-> "", size |-> 0, mimeType |-> "",
    createdAt |-> 0, processingStatus |-> "", chunkCount |-> Undefined ]

NoResponse == [http |-> 0, error |-> "", duplicate |-> FALSE, file |-> NoFileInfo]

Init ==
  /\ files = <<>>
  /\ hashIndex = <<>>
  /\ now = 0
  /\ pc = [r \in Requests |-> "idle"]
  /\ upload = [r \in Requests |-> NoUpload]
  /\ fileHash = [r \in Requests |-> ""]
  /\ existingFile = [r \in Requests |-> 0]
  /\ newFile = [r \in Requests |-> 0]
  /\ response = [r \in Requests |-> NoResponse]
  /\ job = <<>>
  /\ lastCall = NoCall

(* new Date(): the clock never runs backwards, and two readings in the same
   millisecond are equal; `now` is the latest reading *)
Dates == {d \in {now, now + 1} : d <= MaxClock}

(* ---------------------------------------------------------------------- *)
(* src/src/app/api/upload/route.ts: POST /api/upload                       *)
(* ---------------------------------------------------------------------- *)
ErrorResponse(http, error) ==
  [http |-> http, error |-> error, duplicate |-> FALSE, file |-> NoFileInfo]

(* the `file` object of a response, read from the record at response time;
   the new-file response has no chunkCount key *)
FileInfo(record, withChunkCount) ==
  [ id |-> record.id,
    name |-> record.file_name,
    hash |-> record.file_hash,
    size |-> record.file_size,
    mimeType |-> record.mime_type,
    createdAt |-> record.created_at,
    processingStatus |-> record.processing_status,
    chunkCount |-> IF withChunkCount THEN record.chunk_count ELSE Undefined ]

FileResponse(duplicate, record) ==
  [http |-> 200, error |-> "", duplicate |-> duplicate,
   file |-> FileInfo(record, duplicate)]

Respond(r, resp) ==
  /\ response' = [response EXCEPT ![r] = resp]
  /\ pc' = [pc EXCEPT ![r] = "done"]

(* lines 18-23: the handler is called with a request and runs to the await
   of request.formData(); upload[r] is the `file` field of the request's
   form from here on, NoUpload when the form has none *)
PostReceive(r, form) ==
  /\ pc[r] = "idle"
  /\ upload' = [upload EXCEPT ![r] = IF form = <<>> THEN NoUpload ELSE form[1]]
  /\ pc' = [pc EXCEPT ![r] = "formData"]
  /\ UNCHANGED <<files, hashIndex, now, fileHash, existingFile, newFile,
                 response, job, lastCall>>

(* lines 24-45: resumed with the form, the handler answers 400 when the form
   has no file or validateFile rejects it, and otherwise runs to the await of
   file.arrayBuffer() *)
PostValidate(r) ==
  /\ pc[r] = "formData"
  /\ IF upload[r] = NoUpload
       THEN Respond(r, ErrorResponse(400, "No file provided"))
       ELSE LET validation == validateFile(upload[r], DefaultMaxSizeBytes)
            IN IF ~validation.isValid
                 THEN Respond(r, ErrorResponse(400, validation.error))
                 ELSE /\ pc' = [pc EXCEPT ![r] = "arrayBuffer"]
                      /\ UNCHANGED response
  /\ UNCHANGED <<files, hashIndex, now, upload, fileHash, existingFile, newFile,
                 job, lastCall>>

(* lines 45-46: resumed with the bytes, the handler calls computeFileHash,
   which hashes them at once, and runs to the await of its promise *)
PostHash(r) ==
  /\ pc[r] = "arrayBuffer"
  /\ fileHash' = [fileHash EXCEPT ![r] = computeFileHash(upload[r].buffer)]
  /\ pc' = [pc EXCEPT ![r] = "lookup"]
  /\ UNCHANGED <<files, hashIndex, now, upload, existingFile, newFile, response,
                 job, lastCall>>

(* line 49: db.findByHash(fileHash) *)
PostLookup(r) ==
  /\ pc[r] = "lookup"
  /\ existingFile' = [existingFile EXCEPT ![r] = findByHash(fileHash[r])]
  /\ pc' = [pc EXCEPT ![r] = "found"]
  /\ UNCHANGED <<files, hashIndex, now, upload, fileHash, newFile, response, job, lastCall>>

(* the duplicate path, as a mutant would have it: the record takes the name
   of the latest upload *)
PostDuplicate_Rename(r) ==
  /\ pc[r] = "found"
  /\ existingFile[r] # 0
  /\ files' = [files EXCEPT ![existingFile[r]].file_name = upload[r].name]
  /\ Respond(r, FileResponse(TRUE, files'[existingFile[r]]))
  /\ UNCHANGED <<hashIndex, now, upload, fileHash, existingFile, newFile, job,
                 lastCall>>

(* the duplicate path, as a mutant would have it: the job is started again
   for the record found *)
PostDuplicate_Reprocess(r) ==
  /\ pc[r] = "found"
  /\ existingFile[r] # 0
  /\ job' = (existingFile[r] :>
               [pc |-> "running", fileSize |-> upload[r].size, success |-> FALSE,
                chunkCount |-> 0, threw |-> FALSE]) @@ job
  /\ Respond(r, FileResponse(TRUE, files[existingFile[r]]))
  /\ UNCHANGED <<files, hashIndex, now, upload, fileHash, existingFile, newFile,
                 lastCall>>

(* lines 51-69: the duplicate path *)
PostDuplicate(r) ==
  /\ pc[r] = "found"
  /\ existingFile[r] # 0
  /\ Respond(r, FileResponse(TRUE, files[existingFile[r]]))
  /\ UNCHANGED <<files, hashIndex, now, upload, fileHash, existingFile, newFile,
                 job, lastCall>>

(* lines 71-73: the file is new; db.insertFile(metadata) *)
PostInsert(r) ==
  /\ pc[r] = "found"
  /\ existingFile[r] = 0
  /\ \E date \in Dates :
     LET metadata == generateFileMetadata(upload[r], fileHash[r])
         res == insertFile(metadata, date)
     IN /\ files' = res.files
        /\ now' = IF res.threw THEN now ELSE date
        /\ hashIndex' = res.hashIndex
        /\ newFile' = [newFile EXCEPT ![r] = res.id]
        /\ pc' = [pc EXCEPT ![r] = IF res.threw THEN "catch" ELSE "inserted"]
  /\ UNCHANGED <<upload, fileHash, existingFile, response, job, lastCall>>

(* lines 96-106: insertFile threw *)
PostCatch(r) ==
  /\ pc[r] = "catch"
  /\ Respond(r, ErrorResponse(500, "Internal server error"))
  /\ UNCHANGED <<files, hashIndex, now, upload, fileHash, existingFile, newFile,
                 job, lastCall>>

JobState(p, size, success, chunkCount, threw) ==
  [pc |-> p, fileSize |-> size, success |-> success, chunkCount |-> chunkCount,
   threw |-> threw]

(* the start of the job, as a mutant would have it: the handler waits for the
   job and its final update before it builds the response *)
PostStartJob_Awaited(r) ==
  /\ pc[r] = "inserted"
  /\ LET result == simulateRAGProcessing(upload[r].size)
     IN /\ files' = IF result.success
                      THEN updateProcessingStatus(newFile[r], "completed",
                                                  Some(result.chunkCount))
                      ELSE updateProcessingStatus(newFile[r], "failed", Undefined)
        /\ job' = (newFile[r] :> JobState("done", upload[r].size, result.success,
                                          result.chunkCount, FALSE)) @@ job
  /\ Respond(r, FileResponse(FALSE, files'[newFile[r]]))
  /\ UNCHANGED <<hashIndex, now, upload, fileHash, existingFile, newFile, lastCall>>

(* lines 75-94 and 113-119: processFileInBackground runs up to its first await
   (the status is processing from here on), then the response is built from
   newFile, the very object the store holds *)
PostStartJob(r) ==
  /\ pc[r] = "inserted"
  /\ files' = updateProcessingStatus(newFile[r], "processing", Undefined)
  /\ job' = (newFile[r] :> JobState("running", upload[r].size, FALSE, 0, FALSE)) @@ job
  /\ Respond(r, FileResponse(FALSE, files'[newFile[r]]))
  /\ UNCHANGED <<hashIndex, now, upload, fileHash, existingFile, newFile, lastCall>>

(* fileUtils.ts lines 118-132: the timer fired, simulateRAGProcessing returns *)
JobTimer(id) ==
  /\ id \in DOMAIN job
  /\ job[id].pc = "running"
  /\ LET result == simulateRAGProcessing(job[id].fileSize)
     IN job' = [job EXCEPT ![id] =
                  JobState("returned", @.fileSize, result.success,
                           result.chunkCount, FALSE)]
  /\ UNCHANGED <<files, hashIndex, now, pc, upload, fileHash, existingFile,
                 newFile, response, lastCall>>

(* the end of the job, as a mutant would have it: a failure sends the record
   back to pending for a retry *)
JobFinish_Retry(id) ==
  /\ id \in DOMAIN job
  /\ job[id].pc = "returned"
  /\ files' = IF job[id].success
                THEN updateProcessingStatus(id, "completed", Some(job[id].chunkCount))
                ELSE updateProcessingStatus(id, "pending", Undefined)
  /\ job' = [job EXCEPT ![id].pc = "done"]
  /\ UNCHANGED <<hashIndex, now, pc, upload, fileHash, existingFile, newFile,
                 response, lastCall>>

(* the end of the job, as a mutant would have it: the chunk count is not
   passed on *)
JobFinish_NoChunkCount(id) ==
  /\ id \in DOMAIN job
  /\ job[id].pc = "returned"
  /\ files' = IF job[id].success
                THEN updateProcessingStatus(id, "completed", Undefined)
                ELSE updateProcessingStatus(id, "failed", Undefined)
  /\ job' = [job EXCEPT ![id].pc = "done"]
  /\ UNCHANGED <<hashIndex, now, pc, upload, fileHash, existingFile, newFile,
                 response, lastCall>>

(* lines 121-127: the job returned a result *)
JobFinish(id) ==
  /\ id \in DOMAIN job
  /\ job[id].pc = "returned"
  /\ files' = IF job[id].success
                THEN updateProcessingStatus(id, "completed", Some(job[id].chunkCount))
                ELSE updateProcessingStatus(id, "failed", Undefined)
  /\ job' = [job EXCEPT ![id].pc = "done"]
  /\ UNCHANGED <<hashIndex, now, pc, upload, fileHash, existingFile, newFile,
                 response, lastCall>>

(* the catch block, as a mutant would have it: the error is only logged *)
JobCatch_LogOnly(id) ==
  /\ id \in DOMAIN job
  /\ job[id].pc = "threw"
  /\ job' = [job EXCEPT ![id].pc = "done"]
  /\ UNCHANGED <<files, hashIndex, now, pc, upload, fileHash, existingFile,
                 newFile, response, lastCall>>

(* lines 129-132: the job threw *)
JobCatch(id) ==
  /\ id \in DOMAIN job
  /\ job[id].pc = "threw"
  /\ files' = updateProcessingStatus(id, "failed", Undefined)
  /\ job' = [job EXCEPT ![id].pc = "done"]
  /\ UNCHANGED <<hashIndex, now, pc, upload, fileHash, existingFile, newFile,
                 response, lastCall>>

(* ---------------------------------------------------------------------- *)
(* The processing job as an external collaborator: what                    *)
(* processFileInBackground is written to handle besides the simulated      *)
(* job's success (route.ts lines 119-132)                                  *)
(* ---------------------------------------------------------------------- *)
ExternalResults ==
  {[success |-> FALSE, chunkCount |-> 0]}
    \cup {[success |-> TRUE, chunkCount |-> n] : n \in 0..MaxChunks}

(* line 119: the awaited job resolves with a result of its own *)
JobReports(id, result) ==
  /\ id \in DOMAIN job
  /\ job[id].pc = "running"
  /\ job' = [job EXCEPT ![id] =
               JobState("returned", @.fileSize, result.success,
                        result.chunkCount, FALSE)]
  /\ UNCHANGED <<files, hashIndex, now, pc, upload, fileHash, existingFile,
                 newFile, response, lastCall>>

(* line 119: the awaited job rejects *)
JobThrows(id) ==
  /\ id \in DOMAIN job
  /\ job[id].pc = "running"
  /\ job' = [job EXCEPT ![id] = JobState("threw", @.fileSize, FALSE, 0, TRUE)]
  /\ UNCHANGED <<files, hashIndex, now, pc, upload, fileHash, existingFile,
                 newFile, response, lastCall>>

(* ---------------------------------------------------------------------- *)
(* Direct calls of the store operations (database.ts), any arguments       *)
(* ---------------------------------------------------------------------- *)
(* the metadata of the valid uploads, and the record the getStats test of the
   technical document inserts as completed, without and with the optional
   chunk_count *)
StoreInputs ==
  { generateFileMetadata(f, computeFileHash(f.buffer)) :
      f \in {u \in Uploads : validateFile(u, DefaultMaxSizeBytes).isValid} }
  \cup
  { [ file_name |-> "completed.txt",
      file_hash |-> "completed_hash_12345678901234567890123456789012345678901234567890",
      file_size |-> 200,
      mime_type |-> "text/plain",
      processing_status |-> "completed" ],
    [ file_name |-> "completed.txt",
      file_hash |-> "completed_hash_12345678901234567890123456789012345678901234567890",
      file_size |-> 200,
      mime_type |-> "text/plain",
      processing_status |-> "completed",
      chunk_count |-> Some(MaxChunks) ] }

ChunkArgs == {Undefined} \cup {Some(n) : n \in 0..MaxChunks}

StoreInsert(fileData) ==
  /\ lastCall.n < MaxCalls
  /\ \E date \in Dates :
     LET res == insertFile(fileData, date)
     IN /\ files' = res.files
        /\ now' = IF res.threw THEN now ELSE date
        /\ hashIndex' = res.hashIndex
        /\ lastCall' =
             [ n |-> lastCall.n + 1, op |-> "insertFile", id |-> res.id,
               file_hash |-> fileData.file_hash, status |-> "",
               chunkCount |-> Undefined, threw |-> res.threw,
               before |-> IF fileData.file_hash \in DOMAIN hashIndex
                            THEN "present" ELSE "absent",
               beforeChunk |-> Undefined ]
  /\ UNCHANGED <<pc, upload, fileHash, existingFile, newFile, response, job>>

StoreUpdate(id, status, chunkCount) ==
  /\ lastCall.n < MaxCalls
  /\ files' = updateProcessingStatus(id, status, chunkCount)
  /\ lastCall' =
       [ n |-> lastCall.n + 1, op |-> "updateProcessingStatus", id |-> id,
         file_hash |-> "", status |-> status, chunkCount |-> chunkCount,
         threw |-> FALSE,
         before |-> IF id \in DOMAIN files
                      THEN files[id].processing_status ELSE "absent",
         beforeChunk |-> IF id \in DOMAIN files
                           THEN files[id].chunk_count ELSE Undefined ]
  /\ UNCHANGED <<hashIndex, now, pc, upload, fileHash, existingFile, newFile,
                 response, job>>

(* direct call of db.getAllFiles(limit, offset); the records returned are
   kept in lastCall *)
ListFiles(limit, offset) ==
  /\ lastCall.n = 0
  /\ lastCall' = [ n |-> 1, op |-> "getAllFiles", limit |-> limit,
                   offset |-> offset, result |-> getAllFiles(limit, offset) ]
  /\ UNCHANGED <<files, hashIndex, now, pc, upload, fileHash, existingFile,
                 newFile, response, job>>

(* ---------------------------------------------------------------------- *)
(* src/src/app/api/upload/route.ts: GET /api/files                         *)
(* ---------------------------------------------------------------------- *)
MaxLimit == 100
DefaultLimit == 50
DefaultOffset == 0

(* parseInt(searchParams.get(name) || fallback) for a parameter that is
   absent (<<>>) or the decimal digits of an integer n (<<n>>) *)
ParseIntOr(param, fallback) == IF param = Undefined THEN fallback ELSE param[1]

(* lines 167-177: one entry of formattedFiles; chunk_count || 0 *)
FormattedFile(file) ==
  [ id |-> file.id,
    name |-> file.file_name,
    hash |-> file.file_hash,
    size |-> file.file_size,
    sizeFormatted |-> formatFileSize(Base1024(file.file_size)),
    mimeType |-> file.mime_type,
    createdAt |-> file.created_at,
    processingStatus |-> file.processing_status,
    chunkCount |-> IF file.chunk_count = Undefined THEN 0 ELSE file.chunk_count[1] ]

(* lines 155-162, the part of GET that runs when it is called.
   db.getAllFiles and db.getStats have no await inside: both run when
   Promise.all is built, on the same state of the store.  getAllFiles
   returns the stored record objects themselves, so `found` holds the
   identities of the records, not copies of them; `stats` is a fresh object *)
GetFilesCall(limitParam, offsetParam) ==
  LET limit == Min(ParseIntOr(limitParam, DefaultLimit), MaxLimit)
      offset == Max(ParseIntOr(offsetParam, DefaultOffset), 0)
      found == getAllFiles(limit, offset)
  IN [ limit |-> limit, offset |-> offset,
       found |-> [i \in 1..Len(found) |-> found[i].id],
       stats |-> getStats ]

NoGetFilesCall ==
  [ limit |-> 0, offset |-> 0, found |-> <<>>,
    stats |-> [totalFiles |-> 0, uniqueHashes |-> 0, processingStats |-> <<>>] ]

(* lines 165-190, the part of GET that runs once the await of Promise.all
   has resumed: formattedFiles is built from the record objects as they are
   by then, pagination and stats from the figures taken at the call *)
GetFilesResponse(call) ==
  [ http |-> 200,
    files |-> [i \in 1..Len(call.found) |-> FormattedFile(files[call.found[i]])],
    pagination |-> [ limit |-> call.limit, offset |-> call.offset,
                     total |-> call.stats.totalFiles,
                     hasMore |-> call.offset + call.limit < call.stats.totalFiles ],
    stats |-> [ totalFiles |-> call.stats.totalFiles,
                uniqueHashes |-> call.stats.uniqueHashes,
                processing |-> call.stats.processingStats ] ]

(* GET /api/files?limit=..&offset=.. is called and runs up to its await *)
GetFiles(limitParam, offsetParam) ==
  /\ lastCall.n = 0
  /\ lastCall' =
       [ n |-> 1, op |-> "GET /api/files", p |-> "await",
         limitParam |-> limitParam, offsetParam |-> offsetParam,
         call |-> GetFilesCall(limitParam, offsetParam) ]
  /\ UNCHANGED <<files, hashIndex, now, pc, upload, fileHash, existingFile,
                 newFile, response, job>>

(* the await has resumed: the response is built and returned *)
GetFilesRespond ==
  /\ lastCall.op = "GET /api/files"
  /\ lastCall.p = "await"
  /\ LET resp == GetFilesResponse(lastCall.call)
     IN lastCall' =
          [ n |-> 1, op |-> "GET /api/files", p |-> "done",
            limitParam |-> lastCall.limitParam,
            offsetParam |-> lastCall.offsetParam,
            http |-> resp.http,
            files |-> resp.files,
            pagination |-> resp.pagination,
            stats |-> resp.stats ]
  /\ UNCHANGED <<files, hashIndex, now, pc, upload, fileHash, existingFile,
                 newFile, response, job>>

(* ---------------------------------------------------------------------- *)
(* Specifications                                                          *)
(* ---------------------------------------------------------------------- *)
(* concurrent uploads with the repository's simulated job: the handlers of
   JobRequests run at once, each step of one between any steps of the others
   and of the jobs *)
Next ==
  \/ \E r \in JobRequests, form \in FormData : PostReceive(r, form)
  \/ \E r \in Requests : PostValidate(r)
  \/ \E r \in Requests : PostHash(r)
  \/ \E r \in Requests : PostLookup(r)
  \/ \E r \in Requests : PostDuplicate(r)
  \/ \E r \in Requests : PostInsert(r)
  \/ \E r \in Requests : PostCatch(r)
  \/ \E r \in Requests : PostStartJob(r)
  \/ \E id \in DOMAIN job : JobTimer(id)
  \/ \E id \in DOMAIN job : JobFinish(id)

Spec == Init /\ [][Next]_vars

(* uploads one after the other: a request is received only when no other
   request is in progress; the jobs still run in the background *)
NoRequestInProgress == \A q \in Requests : pc[q] \in {"idle", "done"}

PostReceiveAlone(r, form) == NoRequestInProgress /\ PostReceive(r, form)

NextSeq ==
  \/ \E r \in Requests, form \in FormData : PostReceiveAlone(r, form)
  \/ \E r \in Requests : PostValidate(r)
  \/ \E r \in Requests : PostHash(r)
  \/ \E r \in Requests : PostLookup(r)
  \/ \E r \in Requests : PostDuplicate(r)
  \/ \E r \in Requests : PostInsert(r)
  \/ \E r \in Requests : PostStartJob(r)
  \/ \E id \in DOMAIN job : JobTimer(id)
  \/ \E id \in DOMAIN job : JobFinish(id)

SpecSeq == Init /\ [][NextSeq]_vars

(* concurrent uploads with an external job: any result, or a throw *)
NextExt ==
  \/ \E r \in JobRequests, form \in FormData : PostReceive(r, form)
  \/ \E r \in Requests : PostValidate(r)
  \/ \E r \in Requests : PostHash(r)
  \/ \E r \in Requests : PostLookup(r)
  \/ \E r \in Requests : PostDuplicate(r)
  \/ \E r \in Requests : PostInsert(r)
  \/ \E r \in Requests : PostCatch(r)
  \/ \E r \in Requests : PostStartJob(r)
  \/ \E id \in DOMAIN job : JobTimer(id)
  \/ \E id \in DOMAIN job : JobFinish(id)
  \/ \E id \in DOMAIN job, result \in ExternalResults : JobReports(id, result)
  \/ \E id \in DOMAIN job : JobThrows(id)
  \/ \E id \in DOMAIN job : JobCatch(id)

SpecExt == Init /\ [][NextExt]_vars

(* the continuations of processFileInBackground are run by the event loop
   once the awaited job has settled *)
SpecExtFair ==
  /\ Init
  /\ [][NextExt]_vars
  /\ \A id \in 1..NumJobRequests : WF_vars(JobFinish(id)) /\ WF_vars(JobCatch(id))

(* direct calls of the store operations *)
NextStore ==
  \/ \E fileData \in StoreInputs : StoreInsert(fileData)
  \/ \E id \in 1..(Cardinality(DOMAIN files) + 1), status \in Statuses,
        chunkCount \in ChunkArgs : StoreUpdate(id, status, chunkCount)

SpecStore == Init /\ [][NextStore]_vars

(* validateFile called on its own: the sizes and maxima around 0 and around
   the default maximum; the call and its result are kept in lastCall *)
ValidateSizes ==
  (0..MaxSize) \cup
    {DefaultMaxSizeBytes - 1, DefaultMaxSizeBytes, DefaultMaxSizeBytes + 1}

ValidateMaxes == {-1} \cup ValidateSizes

ValidateCall(n, size, maxSizeBytes, result) ==
  [ n |-> n, op |-> "validateFile", size |-> size, maxSizeBytes |-> maxSizeBytes,
    isValid |-> result.isValid, error |-> result.error ]

InitValidate ==
  /\ files = <<>>
  /\ hashIndex = <<>>
  /\ now = 0
  /\ pc = [r \in Requests |-> "idle"]
  /\ upload = [r \in Requests |-> NoUpload]
  /\ fileHash = [r \in Requests |-> ""]
  /\ existingFile = [r \in Requests |-> 0]
  /\ newFile = [r \in Requests |-> 0]
  /\ response = [r \in Requests |-> NoResponse]
  /\ job = <<>>
  /\ \E size \in ValidateSizes, maxSizeBytes \in ValidateMaxes :
       lastCall = ValidateCall(0, size, maxSizeBytes, [isValid |-> FALSE, error |-> ""])

ValidateFile ==
  /\ lastCall.n = 0
  /\ lastCall' = ValidateCall(1, lastCall.size, lastCall.maxSizeBytes,
                              validateFile([size |-> lastCall.size],
                                           lastCall.maxSizeBytes))
  /\ UNCHANGED <<files, hashIndex, now, pc, upload, fileHash, existingFile,
                 newFile, response, job>>

NextValidate == ValidateFile

SpecValidate == InitValidate /\ [][NextValidate]_vars

(* listing a store: the store holds the records file0.txt, file1.txt, ... of
   the getAllFiles test of the technical document, inserted in this order.
   A store of up to MaxRecords records has any dates the clock allows; a
   store larger than the listing maximum has a new date every second insert. *)
ListFileData(i) ==
  [ file_name |-> "file" \o ToString(i) \o ".txt",
    file_hash |-> "hash" \o ToString(i)
                    \o "_000000000000000000000000000000000000000000000000000000000"
                    \o ToString(i),
    file_size |-> 100 + i,
    mime_type |-> "text/plain",
    processing_status |-> "pending" ]

ListSizes == (0..MaxRecords) \cup {MaxLimit + 1, MaxLimit + 2}

ListDates(n) ==
  IF n <= MaxRecords
    THEN {d \in [1..n -> 0..MaxClock] : \A i \in 1..(n - 1) : d[i] <= d[i + 1]}
    ELSE {[id \in 1..n |-> id \div 2]}

ListArgs == (-1)..MaxArg

GetLimits ==
  {Undefined} \cup
    {Some(n) : n \in ((-MaxArg)..MaxArg) \cup {MaxLimit - 1, MaxLimit, MaxLimit + 1}}

GetOffsets ==
  {Undefined} \cup {Some(n) : n \in ((-MaxArg)..MaxArg) \cup {MaxLimit, MaxLimit + 1}}

InitList ==
  /\ \E n \in ListSizes : \E date \in ListDates(n) :
       /\ files = [id \in 1..n |-> NewRecord(id, ListFileData(id - 1), date[id])]
       /\ hashIndex = [h \in {ListFileData(i).file_hash : i \in 0..(n - 1)} |->
                         CHOOSE id \in 1..n : ListFileData(id - 1).file_hash = h]
       /\ now = IF n = 0 THEN 0 ELSE date[n]
  /\ pc = [r \in Requests |-> "idle"]
  /\ upload = [r \in Requests |-> NoUpload]
  /\ fileHash = [r \in Requests |-> ""]
  /\ existingFile = [r \in Requests |-> 0]
  /\ newFile = [r \in Requests |-> 0]
  /\ response = [r \in Requests |-> NoResponse]
  /\ job = <<>>
  /\ lastCall = NoCall

(* the records were stored by insertFile called directly, as in that test: no
   upload was handled, so no background job runs and nothing writes to the
   store while a listing waits at its await *)
NextList ==
  \/ \E limit \in ListArgs, offset \in ListArgs : ListFiles(limit, offset)
  \/ \E limitParam \in GetLimits, offsetParam \in GetOffsets :
       GetFiles(limitParam, offsetParam)
  \/ GetFilesRespond

SpecList == InitList /\ [][NextList]_vars

(* ---------------------------------------------------------------------- *)
(* src/src/lib/fileUtils.ts: computeStreamHash on a Readable of its own.    *)
(* lastCall holds the stream (the buffer it reads, the chunks and the       *)
(* number of bytes emitted, its state and its error), the closure of        *)
(* computeStreamHash (the bytes the Hash object has absorbed, totalBytes)   *)
(* and the promise it returned.                                             *)
(* ---------------------------------------------------------------------- *)
(* the bytes of a buffer, written out *)
RECURSIVE Bytes(_)
Bytes(buffer) ==
  IF buffer.repeat = 0 THEN ""
  ELSE buffer.text \o Bytes([buffer EXCEPT !.repeat = @ - 1])

(* createHash('sha256') after update() calls that absorbed `bytes` in all,
   then digest('hex'): the real SHA-256 digests of the byte strings a stream
   of StreamBuffers can have delivered *)
HashDigest(bytes) ==
    CASE bytes = "" -> "e3b0c44298fc1c149afbf4c8996fb92427ae41e4649b934ca495991b7852b855"
      [] bytes = "c" -> "2e7d2c03a9507ae265ecf5b5356885a53393a2029d241394997265a1a25aefc6"
      [] bytes = "co" -> "c330ec504d82c24fcd10be978fa74b8a3185a8df719604a85443bb9ca279f5a2"
      [] bytes = "con" -> "1143da2bc54c495c4be31d3868785d39ffdfd56df5668f0645d8f14d47647952"
      [] bytes = "cont" -> "0cc1c74193b578d2351e3637ab6276696391a270f7bec2445a3668ee9b590c7e"
      [] bytes = "conte" -> "b2ba95a42423cbb53873ddfe194ceb84cbb14bbad9cb4204949ce59ebebf2497"
      [] bytes = "conten" -> "2af0f99d93bd34c5cc387434301f36e37cd834a5113a084e112861f755aab85c"
      [] bytes = "content" -> "ed7002b439e9ac845f22357d822bac1444730fbdb6016d3ec9432297b9ec9f73"
      [] bytes = "content1" -> "d0b425e00e15a0d36b9b361f02bab63563aed6cb4665083905386c55d5b679fa"
      [] bytes = "H" -> "44bd7ae60f478fae1061e11a7739f4b94d1daf917982d33b6fc8a01a63f89c21"
      [] bytes = "He" -> "30efdfb52ff67f80dab7cb89dcfe0eec8412966cfe58324993674b4616d6bd11"
      [] bytes = "Hel" -> "b789c24dcdb68c4437b04c186bf239a7207e7573fb1b22a749fe1a7b8d96d292"
      [] bytes = "Hell" -> "8d586f8b60df1ad7502b52fc50d2e0b6d0d9b5643875c054d821dfd8e6672bed"
      [] bytes = "Hello" -> "185f8db32271fe25f561a6fc938b2e264306ec304eda518007d1764826381969"
      [] bytes = "Hello," -> "dafe7694460f4e37b708f5134f2f7f759cb997f9cb612d6ca566dd6e6a34353f"
      [] bytes = "Hello, " -> "23429bd9ba98dd5140309bb9b0094b3aad642430fff6fb3ca61f008ce644f34a"
      [] bytes = "Hello, W" -> "dea773eedc7487ca1c6a4d9db7f36a82d4113107ee53cebe9b835f8319791cbb"
      [] bytes = "Hello, Wo" -> "84e26c20a49eb713122355c50f7f15f9a7a1404d91880eca37bce46d05d74cff"
      [] bytes = "Hello, Wor" -> "305f36b3094dcef35aea58e093726c735a6f2c8221f482b1b83afa239978f0f7"
      [] bytes = "Hello, Worl" -> "1994ae3d7db22a599d18a683d491caec7e54c5ec2a94d53be304c33ceff05cd4"
      [] bytes = "Hello, World" -> "03675ac53ff9cd1535ccc7dfcdfa2c458c5218371f418dc136f2d19ac1fbe8a5"
      [] bytes = "Hello, World!" -> "dffd6021bb2bd5b0af676290809ec3a53191dd81c7f70a4b28688a362182986f"

StreamBuffers == {BufEmpty, BufContent1, BufHello}

(* the errors a read can fail with *)
StreamErrors == {"ECONNRESET", "EIO"}

(* lines 37-40: the promise is built, the Hash created, the handlers
   attached; no event has been emitted *)
InitStream ==
  /\ files = <<>>
  /\ hashIndex = <<>>
  /\ now = 0
  /\ pc = [r \in Requests |-> "idle"]
  /\ upload = [r \in Requests |-> NoUpload]
  /\ fileHash = [r \in Requests |-> ""]
  /\ existingFile = [r \in Requests |-> 0]
  /\ newFile = [r \in Requests |-> 0]
  /\ response = [r \in Requests |-> NoResponse]
  /\ job = <<>>
  /\ \E buffer \in StreamBuffers :
       lastCall = [ n |-> 0, op |-> "computeStreamHash", buffer |-> buffer,
                    chunks |-> <<>>, sent |-> 0, stream |-> "flowing",
                    streamError |-> "", hashed |-> "", totalBytes |-> 0,
                    promise |-> "pending", digest |-> "", reason |-> "" ]

(* the 'data' handler, as a mutant would have it: only the first chunk is
   absorbed *)
StreamData_FirstChunkOnly(length) ==
  /\ lastCall.stream = "flowing"
  /\ length >= 1
  /\ lastCall.sent + length <= Len(Bytes(lastCall.buffer))
  /\ LET chunk == SubSeq(Bytes(lastCall.buffer), lastCall.sent + 1,
                         lastCall.sent + length)
     IN lastCall' = [lastCall EXCEPT !.n = @ + 1,
                                     !.chunks = Append(@, chunk),
                                     !.sent = @ + length,
                                     !.totalBytes = @ + Len(chunk),
                                     !.hashed = IF lastCall.totalBytes = 0
                                                  THEN chunk ELSE @]
  /\ UNCHANGED <<files, hashIndex, now, pc, upload, fileHash, existingFile,
                 newFile, response, job>>

(* lines 42-45: the stream emits the next `length` bytes as one chunk; the
   'data' handler adds to totalBytes and calls hash.update(chunk) *)
StreamData(length) ==
  /\ lastCall.stream = "flowing"
  /\ length >= 1
  /\ lastCall.sent + length <= Len(Bytes(lastCall.buffer))
  /\ LET chunk == SubSeq(Bytes(lastCall.buffer), lastCall.sent + 1,
                         lastCall.sent + length)
     IN lastCall' = [lastCall EXCEPT !.n = @ + 1,
                                     !.chunks = Append(@, chunk),
                                     !.sent = @ + length,
                                     !.totalBytes = @ + Len(chunk),
                                     !.hashed = @ \o chunk]
  /\ UNCHANGED <<files, hashIndex, now, pc, upload, fileHash, existingFile,
                 newFile, response, job>>

(* lines 47-51: the stream has emitted all its bytes and ends; the 'end'
   handler takes the digest and resolves the promise with it *)
StreamEnd ==
  /\ lastCall.stream = "flowing"
  /\ lastCall.sent = Len(Bytes(lastCall.buffer))
  /\ lastCall' = [lastCall EXCEPT !.n = @ + 1,
                                  !.stream = "ended",
                                  !.promise = "resolved",
                                  !.digest = HashDigest(lastCall.hashed)]
  /\ UNCHANGED <<files, hashIndex, now, pc, upload, fileHash, existingFile,
                 newFile, response, job>>

(* the 'error' handler, as a mutant would have it: the promise is resolved
   with the digest of what was read *)
StreamError_ResolvesPartial(error) ==
  /\ lastCall.stream = "flowing"
  /\ lastCall' = [lastCall EXCEPT !.n = @ + 1,
                                  !.stream = "errored",
                                  !.streamError = error,
                                  !.promise = "resolved",
                                  !.digest = HashDigest(lastCall.hashed)]
  /\ UNCHANGED <<files, hashIndex, now, pc, upload, fileHash, existingFile,
                 newFile, response, job>>

(* lines 53-56: a read fails before the stream has ended; the stream emits
   'error' and nothing after it, the handler rejects the promise with the
   error *)
StreamError(error) ==
  /\ lastCall.stream = "flowing"
  /\ lastCall' = [lastCall EXCEPT !.n = @ + 1,
                                  !.stream = "errored",
                                  !.streamError = error,
                                  !.promise = "rejected",
                                  !.reason = error]
  /\ UNCHANGED <<files, hashIndex, now, pc, upload, fileHash, existingFile,
                 newFile, response, job>>

NextStream ==
  \/ \E length \in 1..Len(Bytes(lastCall.buffer)) : StreamData(length)
  \/ StreamEnd
  \/ \E error \in StreamErrors : StreamError(error)

SpecStream == InitStream /\ [][NextStream]_vars

(* ---------------------------------------------------------------------- *)
(* src/unnamed/part_001: GET /api/check-duplicate/[hash].  lastCall holds   *)
(* the request: its hash parameter, the position of the handler, the hash   *)
(* passed to db.findByHash (none before the call), the record found and     *)
(* the response.                                                            *)
(* ---------------------------------------------------------------------- *)
(* the characters /[a-f0-9]/i matches *)
HexChars == {"0", "1", "2", "3", "4", "5", "6", "7", "8", "9",
             "a", "b", "c", "d", "e", "f", "A", "B", "C", "D", "E", "F"}

(* line 24: /^[a-f0-9]+$/i.test(hash) *)
IsHex(hash) ==
  Len(hash) >= 1 /\ \A i \in 1..Len(hash) : SubSeq(hash, i, i) \in HexChars

(* String.prototype.toLowerCase on one character of the hashes below *)
LowerCaseOf(char) ==
  CASE char = "A" -> "a" [] char = "B" -> "b" [] char = "C" -> "c"
    [] char = "D" -> "d" [] char = "E" -> "e" [] char = "F" -> "f"
    [] char = "G" -> "g" [] OTHER -> char

(* line 32: hash.toLowerCase(), character by character; the string is cut
   in halves *)
RECURSIVE ToLowerCase(_)
ToLowerCase(string) ==
  IF Len(string) = 0 THEN ""
  ELSE IF Len(string) = 1 THEN LowerCaseOf(string)
  ELSE LET half == Len(string) \div 2
       IN ToLowerCase(SubSeq(string, 1, half))
            \o ToLowerCase(SubSeq(string, half + 1, Len(string)))

(* the hash parameters of the requests: the hashes of content1 and content2
   in lower case, upper case and mixed case, the hash of "Hello, World!"
   that no insert stores, a hash one character short, one a character long,
   one with a letter that is no hexadecimal digit, the empty parameter, and
   the hash of completed.txt, which is stored and is no SHA-256 digest *)
CheckHashes ==
  { "d0b425e00e15a0d36b9b361f02bab63563aed6cb4665083905386c55d5b679fa",
    "D0B425E00E15A0D36B9B361F02BAB63563AED6CB4665083905386C55D5B679FA",
    "ae544b54ade5b778321d1dcd047ca3b9ec3048afbd4be53df976d600dd16b2fe",
    "Ae544b54AdE5B778321d1dCd047cA3B9Ec3048AfBd4bE53dF976D600Dd16B2Fe",
    "dffd6021bb2bd5b0af676290809ec3a53191dd81c7f70a4b28688a362182986f",
    "DFFD6021BB2BD5B0AF676290809EC3A53191DD81C7F70A4B28688A362182986F",
    "d0b425e00e15a0d36b9b361f02bab63563aed6cb4665083905386c55d5b679f",
    "d0b425e00e15a0d36b9b361f02bab63563aed6cb4665083905386c55d5b679fa0",
    "d0b425e00eg5a0d36b9b361f02bab63563aed6cb4665083905386c55d5b679fa",
    "",
    "completed_hash_12345678901234567890123456789012345678901234567890" }

InvalidHashFormat == "Invalid hash format. Expected 64-character hexadecimal string."

CheckCall(n, hash, p, lookup, found, resp) ==
  [ n |-> n, op |-> "GET /api/check-duplicate", hash |-> hash, pc |-> p,
    lookup |-> lookup, existingFile |-> found, response |-> resp ]

(* the store is empty and no request has come in *)
InitCheck ==
  /\ files = <<>>
  /\ hashIndex = <<>>
  /\ now = 0
  /\ pc = [r \in Requests |-> "idle"]
  /\ upload = [r \in Requests |-> NoUpload]
  /\ fileHash = [r \in Requests |-> ""]
  /\ existingFile = [r \in Requests |-> 0]
  /\ newFile = [r \in Requests |-> 0]
  /\ response = [r \in Requests |-> NoResponse]
  /\ job = <<>>
  /\ lastCall = CheckCall(0, "", "done", Undefined, 0, NoResponse)

(* lines 19-32, as a mutant would have it: the hash is looked up as given *)
CheckReceive_CaseSensitive(hash) ==
  /\ lastCall.pc = "done"
  /\ lastCall.n < MaxCalls
  /\ lastCall' =
       IF hash = "" \/ Len(hash) # 64 \/ ~IsHex(hash)
         THEN CheckCall(lastCall.n + 1, hash, "done", Undefined, 0,
                        ErrorResponse(400, InvalidHashFormat))
         ELSE CheckCall(lastCall.n + 1, hash, "found",
                        Some(hash), findByHash(hash), NoResponse)
  /\ UNCHANGED <<files, hashIndex, now, pc, upload, fileHash, existingFile,
                 newFile, response, job>>

(* lines 19-32: the parameter is read and validated; a hash of the wrong
   format is answered with 400, any other is lower-cased and looked up, and
   the handler awaits the result *)
CheckReceive(hash) ==
  /\ lastCall.pc = "done"
  /\ lastCall.n < MaxCalls
  /\ lastCall' =
       IF hash = "" \/ Len(hash) # 64 \/ ~IsHex(hash)
         THEN CheckCall(lastCall.n + 1, hash, "done", Undefined, 0,
                        ErrorResponse(400, InvalidHashFormat))
         ELSE CheckCall(lastCall.n + 1, hash, "found",
                        Some(ToLowerCase(hash)), findByHash(ToLowerCase(hash)),
                        NoResponse)
  /\ UNCHANGED <<files, hashIndex, now, pc, upload, fileHash, existingFile,
                 newFile, response, job>>

(* lines 34-57: the response is built from the record found, as it is now,
   or says that there is none *)
CheckRespond ==
  /\ lastCall.pc = "found"
  /\ lastCall' =
       [lastCall EXCEPT
          !.pc = "done",
          !.response =
             IF lastCall.existingFile # 0
               THEN FileResponse(TRUE, files[lastCall.existingFile])
               ELSE [http |-> 200, error |-> "", duplicate |-> FALSE,
                     file |-> NoFileInfo]]
  /\ UNCHANGED <<files, hashIndex, now, pc, upload, fileHash, existingFile,
                 newFile, response, job>>

(* database.ts lines 55-73: a record is inserted by another request, at any
   time, also while a check awaits its lookup; an insert that throws leaves
   everything as it is *)
CheckInsert(fileData) ==
  /\ \E date \in Dates :
       LET res == insertFile(fileData, date)
       IN /\ ~res.threw
          /\ files' = res.files
          /\ hashIndex' = res.hashIndex
          /\ now' = date
  /\ UNCHANGED <<pc, upload, fileHash, existingFile, newFile, response, job,
                 lastCall>>

NextCheck ==
  \/ \E hash \in CheckHashes : CheckReceive(hash)
  \/ CheckRespond
  \/ \E fileData \in StoreInputs : CheckInsert(fileData)

SpecCheck == InitCheck /\ [][NextCheck]_vars

(* ---------------------------------------------------------------------- *)
(* simulateRAGProcessing called on its own for two files: sizes around 0,   *)
(* around the multiples of 667, those of the tests and the largest size an  *)
(* upload may have; the calls and their results are kept in lastCall: n is  *)
(* the number of results the test holds, p is "timer" while a call waits    *)
(* for its setTimeout                                                       *)
(* ---------------------------------------------------------------------- *)
RagSizes ==
  (0..MaxSize)
    \cup {667 * k + d : k \in 1..MaxArg, d \in {-1, 0, 1}}
    \cup {1000, 10000, DefaultMaxSizeBytes}

RagCall(n, p, small, large, smallResult, largeResult) ==
  [ n |-> n, op |-> "simulateRAGProcessing", p |-> p,
    small |-> small, large |-> large,
    smallResult |-> smallResult, largeResult |-> largeResult ]

NoRagResult == [success |-> FALSE, chunkCount |-> 0]

InitRag ==
  /\ files = <<>>
  /\ hashIndex = <<>>
  /\ now = 0
  /\ pc = [r \in Requests |-> "idle"]
  /\ upload = [r \in Requests |-> NoUpload]
  /\ fileHash = [r \in Requests |-> ""]
  /\ existingFile = [r \in Requests |-> 0]
  /\ newFile = [r \in Requests |-> 0]
  /\ response = [r \in Requests |-> NoResponse]
  /\ job = <<>>
  /\ \E small \in RagSizes, large \in RagSizes :
       /\ small <= large
       /\ lastCall = RagCall(0, "test", small, large, NoRagResult, NoRagResult)

(* the test 'should scale chunk count with file size' calls
   simulateRAGProcessing for the small file, and for the large file once it
   holds the small result; the call runs to the await of its timer
   (fileUtils.ts lines 111-118) *)
RagProcess ==
  /\ lastCall.n < 2
  /\ lastCall.p = "test"
  /\ lastCall' = [lastCall EXCEPT !.p = "timer"]
  /\ UNCHANGED <<files, hashIndex, now, pc, upload, fileHash, existingFile,
                 newFile, response, job>>

(* the timer fires: the call computes its result from its fileSize
   (fileUtils.ts lines 120-132) and the test, resumed, binds it *)
RagTimer ==
  /\ lastCall.p = "timer"
  /\ lastCall' =
       IF lastCall.n = 0
         THEN [lastCall EXCEPT !.n = 1, !.p = "test",
                               !.smallResult = simulateRAGProcessing(lastCall.small)]
         ELSE [lastCall EXCEPT !.n = 2, !.p = "test",
                               !.largeResult = simulateRAGProcessing(lastCall.large)]
  /\ UNCHANGED <<files, hashIndex, now, pc, upload, fileHash, existingFile,
                 newFile, response, job>>

NextRag == RagProcess \/ RagTimer

SpecRag == InitRag /\ [][NextRag]_vars

(* ---------------------------------------------------------------------- *)
(* src/unnamed/part_000: GET /api/stats, asked at any time between uploads  *)
(* that come one after the other; lastCall holds the request in progress    *)
(* or the latest response                                                  *)
(* ---------------------------------------------------------------------- *)
(* lines 493-496, the part of GET that runs when it is called: db.getStats()
   has no await inside, so the figures are those of the store at the call.
   One request is followed at a time: the next is called after the answer. *)
StatsGet ==
  /\ lastCall.op = "GET /api/stats" => lastCall.p = "done"
  /\ lastCall' = [n |-> 1, op |-> "GET /api/stats", p |-> "await", stats |-> getStats]
  /\ UNCHANGED <<files, hashIndex, now, pc, upload, fileHash, existingFile,
                 newFile, response, job>>

(* lines 498-506, after the await has resumed: the response is built from
   the figures taken at the call, and new Date() reads the clock *)
StatsRespond ==
  /\ lastCall.op = "GET /api/stats"
  /\ lastCall.p = "await"
  /\ \E date \in Dates :
       /\ now' = date
       /\ lastCall' =
            [ n |-> 1, op |-> "GET /api/stats", p |-> "done",
              response |->
                [ http |-> 200, success |-> TRUE,
                  stats |-> [ totalFiles |-> lastCall.stats.totalFiles,
                              uniqueHashes |-> lastCall.stats.uniqueHashes,
                              duplicatesSaved |->
                                lastCall.stats.totalFiles - lastCall.stats.uniqueHashes,
                              processing |-> lastCall.stats.processingStats,
                              timestamp |-> date ] ] ]
  /\ UNCHANGED <<files, hashIndex, pc, upload, fileHash, existingFile,
                 newFile, response, job>>

NextStats ==
  \/ \E r \in JobRequests, form \in FormData : PostReceiveAlone(r, form)
  \/ \E r \in Requests : PostValidate(r)
  \/ \E r \in Requests : PostHash(r)
  \/ \E r \in Requests : PostLookup(r)
  \/ \E r \in Requests : PostDuplicate(r)
  \/ \E r \in Requests : PostInsert(r)
  \/ \E r \in Requests : PostStartJob(r)
  \/ \E id \in DOMAIN job : JobTimer(id)
  \/ \E id \in DOMAIN job : JobFinish(id)
  \/ StatsGet
  \/ StatsRespond

SpecStats == Init /\ [][NextStats]_vars

(* ---------------------------------------------------------------------- *)
(* A client that pages through GET /api/files with a fixed limit: offsets   *)
(* 0, limit, 2*limit, ... for as long as the last response had hasMore.     *)
(* The store is one of those of InitList and gets no insert.  lastCall holds *)
(* the limit, the offset of the next request, the ids of the records        *)
(* returned so far and hasMore of the last response (TRUE before the first). *)
(* ---------------------------------------------------------------------- *)
PageLimits == (1..MaxArg) \cup {MaxLimit - 1, MaxLimit}

PageCall(n, limit, offset, seen, hasMore, p, call) ==
  [ n |-> n, op |-> "GET /api/files", limit |-> limit, offset |-> offset,
    seen |-> seen, hasMore |-> hasMore, p |-> p, call |-> call ]

InitPage ==
  /\ \E n \in ListSizes : \E date \in ListDates(n) :
       /\ files = [id \in 1..n |-> NewRecord(id, ListFileData(id - 1), date[id])]
       /\ hashIndex = [h \in {ListFileData(i).file_hash : i \in 0..(n - 1)} |->
                         CHOOSE id \in 1..n : ListFileData(id - 1).file_hash = h]
       /\ now = IF n = 0 THEN 0 ELSE date[n]
  /\ pc = [r \in Requests |-> "idle"]
  /\ upload = [r \in Requests |-> NoUpload]
  /\ fileHash = [r \in Requests |-> ""]
  /\ existingFile = [r \in Requests |-> 0]
  /\ newFile = [r \in Requests |-> 0]
  /\ response = [r \in Requests |-> NoResponse]
  /\ job = <<>>
  /\ \E limit \in PageLimits : lastCall = PageCall(0, limit, 0, <<>>, TRUE, "idle", NoGetFilesCall)

(* route.ts lines 150-162: the next page is requested, at the offset the
   pages so far have reached *)
PageRequest ==
  /\ lastCall.hasMore
  /\ lastCall.p = "idle"
  /\ lastCall' =
       PageCall(lastCall.n, lastCall.limit, lastCall.offset, lastCall.seen,
                lastCall.hasMore, "await",
                GetFilesCall(Some(lastCall.limit), Some(lastCall.offset)))
  /\ UNCHANGED <<files, hashIndex, now, pc, upload, fileHash, existingFile,
                 newFile, response, job>>

(* route.ts lines 165-190: the page is answered *)
PageRespond ==
  /\ lastCall.p = "await"
  /\ \E resp \in {GetFilesResponse(lastCall.call)} :
       lastCall' =
         PageCall(lastCall.n + 1, lastCall.limit,
                  lastCall.offset + lastCall.limit,
                  lastCall.seen \o [i \in 1..Len(resp.files) |-> resp.files[i].id],
                  resp.pagination.hasMore, "idle", NoGetFilesCall)
  /\ UNCHANGED <<files, hashIndex, now, pc, upload, fileHash, existingFile,
                 newFile, response, job>>

NextPage == PageRequest \/ PageRespond

SpecPage == InitPage /\ [][NextPage]_vars

(* the client sends its next request and the server answers it *)
SpecPageFair == SpecPage /\ WF_vars(PageRequest) /\ WF_vars(PageRespond)

(* ---------------------------------------------------------------------- *)
(* formatFileSize called on its own                                        *)
(* ---------------------------------------------------------------------- *)
(* bytes: number holds an integer exactly when its binary digits span at most
   53 places, which five base-1024 digits do and six do not *)
SafeDigits == 5

(* the lowest and the highest digits, and the one that stands for a half *)
FormatDigits == {0, 1, Base \div 2, Base - 1}

(* the byte counts formatted: 0, and every count of up to MaxDigits digits
   taken from FormatDigits whose non-zero digits are the SafeDigits highest *)
FormatInputs ==
  {<<>>} \cup
  UNION { { d \in [1..len -> FormatDigits] :
              /\ d[len] # 0
              /\ \A i \in 1..(len - SafeDigits) : d[i] = 0 } :
          len \in 1..MaxDigits }

NoFormat == [whole |-> 0, decimals |-> <<>>, unit |-> ""]

FormatCall(n, bytes, result) ==
  [n |-> n, op |-> "formatFileSize", bytes |-> bytes, result |-> result]

InitFormat ==
  /\ files = <<>>
  /\ hashIndex = <<>>
  /\ now = 0
  /\ pc = [r \in Requests |-> "idle"]
  /\ upload = [r \in Requests |-> NoUpload]
  /\ fileHash = [r \in Requests |-> ""]
  /\ existingFile = [r \in Requests |-> 0]
  /\ newFile = [r \in Requests |-> 0]
  /\ response = [r \in Requests |-> NoResponse]
  /\ job = <<>>
  /\ \E bytes \in FormatInputs : lastCall = FormatCall(0, bytes, NoFormat)

(* one call formatFileSize(bytes) *)
FormatFileSize ==
  /\ lastCall.n = 0
  /\ lastCall' = FormatCall(1, lastCall.bytes, formatFileSize(lastCall.bytes))
  /\ UNCHANGED <<files, hashIndex, now, pc, upload, fileHash, existingFile,
                 newFile, response, job>>

NextFormat == FormatFileSize

SpecFormat == InitFormat /\ [][NextFormat]_vars

(* ---------------------------------------------------------------------- *)
(* computeFileHash called on its own, any number of times and on any       *)
(* contents, while the store fills.  lastCall holds the calls made so far  *)
(* (buffer, outcome, size of the store at the call) and the Hash objects   *)
(* they created.                                                           *)
(* ---------------------------------------------------------------------- *)
HashCalls(calls, objects) ==
  [n |-> Len(calls), op |-> "computeFileHash", calls |-> calls, objects |-> objects]

InitHash ==
  /\ files = <<>>
  /\ hashIndex = <<>>
  /\ now = 0
  /\ pc = [r \in Requests |-> "idle"]
  /\ upload = [r \in Requests |-> NoUpload]
  /\ fileHash = [r \in Requests |-> ""]
  /\ existingFile = [r \in Requests |-> 0]
  /\ newFile = [r \in Requests |-> 0]
  /\ response = [r \in Requests |-> NoResponse]
  /\ job = <<>>
  /\ lastCall = HashCalls(<<>>, <<>>)

(* one call, as a mutant would have it: the Hash object is created by the
   first call and used by every call after it *)
ComputeFileHash_SharedHash(fileBuffer) ==
  /\ lastCall.n < MaxCalls
  /\ LET hash == IF lastCall.objects = <<>> THEN createHash ELSE lastCall.objects[1]
         result == HashBuffer(hash, fileBuffer)
     IN lastCall' =
          HashCalls(Append(lastCall.calls,
                           [ buffer |-> fileBuffer, digest |-> result.digest,
                             threw |-> result.threw,
                             stored |-> Cardinality(DOMAIN files) ]),
                    <<result.hash>>)
  /\ UNCHANGED <<files, hashIndex, now, pc, upload, fileHash, existingFile,
                 newFile, response, job>>

(* one call computeFileHash(fileBuffer), lines 15-28: it creates its Hash
   object, feeds it the buffer and returns the digest *)
ComputeFileHash(fileBuffer) ==
  /\ lastCall.n < MaxCalls
  /\ LET result == HashBuffer(createHash, fileBuffer)
     IN lastCall' =
          HashCalls(Append(lastCall.calls,
                           [ buffer |-> fileBuffer, digest |-> result.digest,
                             threw |-> result.threw,
                             stored |-> Cardinality(DOMAIN files) ]),
                    Append(lastCall.objects, result.hash))
  /\ UNCHANGED <<files, hashIndex, now, pc, upload, fileHash, existingFile,
                 newFile, response, job>>

(* the content hashed last is stored under its digest, as POST does with a
   digest no record has *)
HashInsert ==
  /\ lastCall.n >= 1
  /\ \E date \in Dates :
       LET last == lastCall.calls[lastCall.n]
           res == insertFile(generateFileMetadata(
                               UploadFile("a.txt", "text/plain", last.buffer),
                               last.digest), date)
       IN /\ ~last.threw
          /\ ~res.threw
          /\ files' = res.files
          /\ hashIndex' = res.hashIndex
          /\ now' = date
  /\ UNCHANGED <<pc, upload, fileHash, existingFile, newFile, response,
                 job, lastCall>>

NextHash ==
  \/ \E fileBuffer \in HashBuffers : ComputeFileHash(fileBuffer)
  \/ HashInsert

SpecHash == InitHash /\ [][NextHash]_vars

(* ---------------------------------------------------------------------- *)
(* Properties                                                              *)
(* ---------------------------------------------------------------------- *)
ValidBuffers == {b \in Buffers : 0 < ByteLength(b) /\ ByteLength(b) <= DefaultMaxSizeBytes}

Answered(r) == pc[r] = "done"
Succeeded(r) == pc[r] = "done" /\ response[r].http = 200
(* request r returns its response in this step *)
Responds(r) == pc[r] # "done" /\ pc'[r] = "done"

(* C1: in every reachable state, whatever the interleaving of uploads and
   status updates, two records with different ids have different
   fingerprints. *)
C1_UniqueFingerprint ==
  \A i, j \in DOMAIN files : i # j => files[i].file_hash # files[j].file_hash

(* two uploads of the same content raced: both looked up before either
   inserted, one insert was rejected, and the job of the record has finished *)
C1_Witness ==
  \E r, q \in Requests :
    /\ r # q
    /\ fileHash[r] = fileHash[q]
    /\ Succeeded(q) /\ ~response[q].duplicate
    /\ Answered(r) /\ response[r].http = 500
    /\ files[newFile[q]].processing_status = "completed"

(* C2: when several uploads of the same new content run concurrently, once
   all of them are answered exactly one reports a new record, every other
   one reports that same record as a duplicate, and none is an error. *)
C2_ConcurrentIngestsAllAnswered ==
  \A b \in ValidBuffers :
    LET S == {r \in Requests : pc[r] # "idle" /\ upload[r].buffer = b}
    IN (S # {} /\ \A r \in S : Answered(r)) =>
         /\ \A r \in S : response[r].http = 200
         /\ Cardinality({r \in S : ~response[r].duplicate}) = 1
         /\ \A r, q \in S : response[r].file.id = response[q].file.id

(* C3: with uploads served one after the other, an upload of valid content
   is answered with duplicate = true exactly when an earlier upload of the
   same bytes created a record; name and declared type are not consulted. *)
C3_DuplicateIffSameContentSeen ==
  [][\A r \in Requests :
       (Responds(r) /\ upload'[r].buffer \in ValidBuffers) =>
         /\ response'[r].http = 200
         /\ response'[r].duplicate <=>
              \E q \in Requests \ {r} :
                /\ Succeeded(q) /\ ~response[q].duplicate
                /\ upload[q].buffer = upload'[r].buffer]_vars

(* a duplicate was reported although name and type differ from the record's *)
C3_Witness ==
  \E r \in Requests :
    /\ Succeeded(r) /\ response[r].duplicate
    /\ response[r].file.name # upload[r].name
    /\ upload[r].type # response[r].file.mimeType
    /\ \E q \in Requests : Succeeded(q) /\ ~response[q].duplicate
                            /\ upload[q].buffer # upload[r].buffer

(* C4: uploading the same content repeatedly, one upload after the other,
   answers duplicate = false the first time and duplicate = true with the
   same id every further time; one record holds that content afterwards, and
   it is the only record when nothing else was uploaded. *)
C4_RepeatedIngest ==
  /\ [][\A r \in Requests :
          (Responds(r) /\ response'[r].http = 200) =>
            LET Earlier == {q \in Requests \ {r} :
                              Succeeded(q) /\ upload[q].buffer = upload'[r].buffer}
            IN /\ response'[r].duplicate <=> Earlier # {}
               /\ \A q \in Earlier : response'[r].file.id = response[q].file.id]_vars
  /\ [](\A r \in Requests :
          Succeeded(r) =>
            /\ Cardinality({id \in DOMAIN files :
                 files[id].file_hash = computeFileHash(upload[r].buffer)}) = 1
            /\ (\A q \in Requests :
                  pc[q] \in {"idle", "done"} /\
                  (Succeeded(q) => upload[q].buffer = upload[r].buffer))
                 => getStats.totalFiles = 1)

(* the same content was uploaded three times in a row *)
C4_Witness ==
  /\ \A r \in Requests : Succeeded(r) /\ upload[r].buffer = BufContent1
  /\ Cardinality({r \in Requests : response[r].duplicate}) = NumRequests - 1
  /\ getStats.totalFiles = 1

(* C5: no step of an upload that finds its fingerprint already stored
   changes the store: the records, all their fields and the hash index are
   the same after the step as before it. *)
C5_DuplicateIngestChangesNothing ==
  [][\A r \in Requests :
       (pc'[r] # pc[r] /\
          \/ pc[r] \in {"idle", "formData", "arrayBuffer", "lookup"}
          \/ pc[r] = "found" /\ existingFile[r] # 0)
         => UNCHANGED <<files, hashIndex>>]_vars

(* a duplicate was answered for an upload under another name, and the record
   found, already processed, still has its first name *)
C5_Witness ==
  \E r \in Requests :
    /\ Succeeded(r) /\ response[r].duplicate
    /\ files[existingFile[r]].file_name # upload[r].name
    /\ files[existingFile[r]].processing_status = "completed"
    /\ files[existingFile[r]].chunk_count # Undefined

(* C6: the response to an upload of new content reports the status pending. *)
C6_NewRecordReportedPending ==
  \A r \in Requests :
    (Succeeded(r) /\ ~response[r].duplicate) =>
      response[r].file.processingStatus = "pending"

(* a store operation was called in this step *)
Called(op) == lastCall'.n # lastCall.n /\ lastCall'.op = op

(* C7: insertFile with a fingerprint that is already present throws and
   leaves the records and the hash index as they were. *)
C7_InsertConflictLeavesStore ==
  [][(Called("insertFile") /\ lastCall'.file_hash \in DOMAIN hashIndex) =>
       /\ lastCall'.threw
       /\ UNCHANGED <<files, hashIndex>>]_vars

(* insertFile was called with a fingerprint already present *)
C7_Witness ==
  /\ lastCall.op = "insertFile"
  /\ lastCall.before = "present"
  /\ lastCall.threw
  /\ lastCall.file_hash \in DOMAIN hashIndex
  /\ files[hashIndex[lastCall.file_hash]].file_hash = lastCall.file_hash

(* C8: driven by uploads and the background job, a record's status changes
   only from pending to processing, from processing to completed and from
   processing to failed; no record is removed, so a completed or failed
   record is never seen in pending or processing again. *)
C8_StatusMovesForward ==
  [][/\ DOMAIN files \subseteq DOMAIN files'
     /\ \A id \in DOMAIN files :
          files'[id].processing_status # files[id].processing_status =>
            <<files[id].processing_status, files'[id].processing_status>> \in
              { <<"pending", "processing">>, <<"processing", "completed">>,
                <<"processing", "failed">> }]_vars

(* one record failed and another one completed *)
C8_Witness ==
  \E i, j \in DOMAIN files :
    /\ files[i].processing_status = "failed"
    /\ files[j].processing_status = "completed"

(* an update of a record in a terminal status to the other terminal status *)
OverwritesTerminal ==
  /\ Called("updateProcessingStatus")
  /\ lastCall'.id \in DOMAIN files
  /\ files[lastCall'.id].processing_status \in Terminal
  /\ lastCall'.status \in Terminal
  /\ lastCall'.status # files[lastCall'.id].processing_status

(* C9, as claimed: updateProcessingStatus on a record in a terminal status
   with the other terminal status is rejected with an error, and status and
   chunk count of the record stay as they were. *)
C9_TerminalOverwriteRejected ==
  [][OverwritesTerminal =>
       /\ lastCall'.threw
       /\ files'[lastCall'.id].processing_status = files[lastCall'.id].processing_status
       /\ files'[lastCall'.id].chunk_count = files[lastCall'.id].chunk_count]_vars

(* C9, amended: updateProcessingStatus on a record in a terminal status with
   the other terminal status raises no error and overwrites the status; the
   chunk count becomes the one passed, and stays when none is passed; nothing
   else changes. *)
C9_TerminalOverwriteAccepted ==
  [][OverwritesTerminal =>
       /\ ~lastCall'.threw
       /\ files' = [files EXCEPT
            ![lastCall'.id].processing_status = lastCall'.status,
            ![lastCall'.id].chunk_count =
               IF lastCall'.chunkCount # Undefined THEN lastCall'.chunkCount ELSE @]
       /\ hashIndex' = hashIndex]_vars

(* a completed record with its chunk count was set to failed *)
C9_Witness ==
  /\ lastCall.op = "updateProcessingStatus"
  /\ lastCall.before = "completed"
  /\ lastCall.beforeChunk # Undefined
  /\ lastCall.status = "failed"
  /\ lastCall.id \in DOMAIN files
  /\ files[lastCall.id].processing_status = "failed"
  /\ files[lastCall.id].chunk_count = lastCall.beforeChunk

JobSettled(id) == id \in DOMAIN job /\ job[id].pc \in {"returned", "threw"}
JobOver(id) == id \in DOMAIN job /\ job[id].pc = "done"

(* C10: once the job of a record has returned a result or thrown, the record
   reaches a terminal status, and that status is failed whenever the job
   reported failure or threw.  Stated in three parts: a settled job does not
   wait for its continuation forever; the only step a settled job takes is
   the end of processFileInBackground; and at that end the record is in a
   terminal status, failed if the job reported failure or threw. *)
C10_JobOutcomeRecorded ==
  /\ []<>(\A id \in DOMAIN job : ~JobSettled(id))
  /\ [][\A id \in DOMAIN job :
          JobSettled(id) =>
            /\ id \in DOMAIN job'
            /\ job'[id] = job[id] \/ job'[id] = [job[id] EXCEPT !.pc = "done"]]_vars
  /\ [](\A id \in DOMAIN job :
          JobOver(id) =>
            /\ id \in DOMAIN files
            /\ files[id].processing_status \in Terminal
            /\ (job[id].threw \/ ~job[id].success) =>
                  files[id].processing_status = "failed")

(* a job threw, another reported failure, and both records are failed *)
C10_Witness ==
  \E i, j \in DOMAIN job :
    /\ JobOver(i) /\ job[i].threw /\ files[i].processing_status = "failed"
    /\ JobOver(j) /\ ~job[j].threw /\ ~job[j].success
    /\ files[j].processing_status = "failed"

JobRunning(id) == id \in DOMAIN job /\ job[id].pc = "running"
InProcessing(id) == id \in DOMAIN files /\ files[id].processing_status = "processing"

(* C11: if the processing job of a record never reports back, the record is
   eventually set to failed; no record stays in processing forever. *)
C11_HungJobRecordFails ==
  /\ \A id \in JobRequests :
       (<>[]JobRunning(id)) => <>(id \in DOMAIN files /\
                                   files[id].processing_status = "failed")
  /\ \A id \in JobRequests : []<>(~InProcessing(id))

(* C12: whatever the processing job reports, success with chunkCount 0
   included, no record is in status completed with chunk count 0: a success
   with zero chunks is recorded as failed. *)
C12_NoCompletedWithZeroChunks ==
  /\ \A id \in DOMAIN files :
       files[id].processing_status = "completed" => files[id].chunk_count # Some(0)
  /\ \A id \in DOMAIN job :
       (JobOver(id) /\ ~job[id].threw /\ job[id].success /\ job[id].chunkCount = 0)
         => files[id].processing_status = "failed"

Validated == lastCall.op = "validateFile" /\ lastCall.n = 1

(* C13: validateFile(size, max) with max >= 0 accepts exactly the sizes with
   0 < size <= max; size 0 is rejected with 'File is empty', a size above max
   is rejected as too large with another message, and a size equal to max is
   accepted. *)
C13_ValidateFileAccepts ==
  (Validated /\ lastCall.maxSizeBytes >= 0) =>
    /\ lastCall.isValid <=> (0 < lastCall.size /\ lastCall.size <= lastCall.maxSizeBytes)
    /\ lastCall.isValid => lastCall.error = ""
    /\ lastCall.size = 0 => (~lastCall.isValid /\ lastCall.error = "File is empty")
    /\ lastCall.size > lastCall.maxSizeBytes =>
         /\ ~lastCall.isValid
         /\ lastCall.error = "exceeds maximum allowed size"
         /\ lastCall.error # "File is empty"

(* a file of exactly the default maximum size was accepted *)
C13_Witness ==
  /\ Validated
  /\ lastCall.size = DefaultMaxSizeBytes
  /\ lastCall.maxSizeBytes = DefaultMaxSizeBytes
  /\ lastCall.isValid

(* an uploaded file whose content is empty or above the maximum *)
InvalidContent(u) == u \in Uploads /\ u.buffer \notin ValidBuffers

(* C14: an upload whose content is empty or larger than the maximum is
   rejected before a hash is computed and before any store operation: its
   handler takes two steps only, the call and the one that answers 400 after
   validateFile; its hash is never set, the records, the hash index and the
   jobs are as before each of these steps, and no record ever holds such
   content. *)
C14_InvalidContentRejectedFirst ==
  /\ [][\A r \in Requests :
          (pc'[r] # pc[r] /\ InvalidContent(upload'[r])) =>
            /\ \/ pc[r] = "idle" /\ pc'[r] = "formData" /\ response'[r] = NoResponse
               \/ /\ pc[r] = "formData" /\ pc'[r] = "done"
                  /\ response'[r].http = 400
                  /\ response'[r].error \in {"File is empty", "exceeds maximum allowed size"}
            /\ fileHash'[r] = ""
            /\ UNCHANGED <<files, hashIndex, job, existingFile, newFile>>]_vars
  /\ [](\A r \in Requests :
          InvalidContent(upload[r]) =>
            /\ pc[r] \in {"formData", "done"}
            /\ fileHash[r] = "" /\ existingFile[r] = 0 /\ newFile[r] = 0
            /\ \A id \in DOMAIN files :
                 files[id].file_hash # computeFileHash(upload[r].buffer))

(* an empty file was rejected while the store held the record of another
   upload, whose job was running *)
C14_Witness ==
  \E r, q \in Requests :
    /\ Answered(r) /\ upload[r].size = 0 /\ response[r].error = "File is empty"
    /\ Succeeded(q) /\ ~response[q].duplicate
    /\ job[newFile[q]].pc = "running"
    /\ Cardinality(DOMAIN files) = 1 /\ Cardinality(DOMAIN job) = 1

(* the number of records in status s, and the count a stats result has for s *)
CountStatus(s) == Cardinality({id \in DOMAIN files : files[id].processing_status = s})
StatOf(stats, s) ==
  IF s \in DOMAIN stats.processingStats THEN stats.processingStats[s] ELSE 0

(* C15: after any sequence of inserts and status updates, the per-status
   counts of getStats sum to totalFiles, and each count is the number of
   records in that status at that time. *)
C15_StatusCountsAddUp ==
  LET stats == getStats
  IN /\ DOMAIN stats.processingStats \subseteq Statuses
     /\ \A s \in Statuses : StatOf(stats, s) = CountStatus(s)
     /\ StatOf(stats, "pending") + StatOf(stats, "processing")
          + StatOf(stats, "completed") + StatOf(stats, "failed") = stats.totalFiles

(* three records, two of them completed, after a status update *)
C15_Witness ==
  /\ lastCall.op = "updateProcessingStatus"
  /\ lastCall.before \in Statuses
  /\ lastCall.before # lastCall.status
  /\ getStats.totalFiles = 3
  /\ StatOf(getStats, "completed") = 2
  /\ StatOf(getStats, "pending") = 1

(* C16: in every reachable state getStats reports uniqueHashes equal to
   totalFiles. *)
C16_UniqueHashesEqualTotal ==
  getStats.uniqueHashes = getStats.totalFiles

(* two uploads of the same content ran at once: one record is stored, and
   the insert of the other upload was rejected *)
C16_Witness ==
  /\ getStats.totalFiles = 1
  /\ getStats.uniqueHashes = 1
  /\ \E r, q \in Requests :
       /\ Answered(r) /\ response[r].http = 500
       /\ Succeeded(q) /\ ~response[q].duplicate

(* C17: once insertFile has returned a record, findByHash of its hash and
   findById of its id return the record with that id in every later state,
   whatever calls follow: no call removes a record or changes its id or hash,
   and the number of records never decreases. *)
C17_RecordsStayFindable ==
  /\ [](\A id \in DOMAIN files :
          /\ findById(id) = id
          /\ findByHash(files[id].file_hash) = id
          /\ files[id].id = id)
  /\ [][/\ \A id \in DOMAIN files :
             /\ id \in DOMAIN files'
             /\ files'[id].id = files[id].id
             /\ files'[id].file_hash = files[id].file_hash
        /\ Cardinality(DOMAIN files') >= Cardinality(DOMAIN files)]_vars
  /\ [][(Called("insertFile") /\ ~lastCall'.threw) =>
          /\ lastCall'.id \in DOMAIN files'
          /\ files'[lastCall'.id].file_hash = lastCall'.file_hash]_vars

(* the first record inserted is still found after an update of its status,
   the insert of another record and a rejected insert of its hash *)
C17_Witness ==
  /\ lastCall.n = MaxCalls
  /\ lastCall.op = "insertFile"
  /\ lastCall.before = "present"
  /\ lastCall.file_hash = files[1].file_hash
  /\ Cardinality(DOMAIN files) = 2
  /\ files[1].processing_status = "failed"
  /\ findByHash(files[1].file_hash) = 1

(* the position of a stored record among all records newest first, counted
   from 0; records of the same date are in insertion order *)
Rank(id) ==
  Cardinality({j \in DOMAIN files :
                 \/ files[j].created_at > files[id].created_at
                 \/ files[j].created_at = files[id].created_at /\ j < id})

(* C18: getAllFiles(limit, offset) with limit >= 0 and offset >= 0 returns
   the records at positions offset .. offset+limit-1 of all records ordered
   newest first by created_at: min(limit, max(0, total - offset)) records,
   with created_at non-increasing along the result. *)
C18_ListReturnsPage ==
  (lastCall.op = "getAllFiles" /\ lastCall.limit >= 0 /\ lastCall.offset >= 0) =>
    LET result == lastCall.result
        total == Cardinality(DOMAIN files)
    IN /\ Len(result) = Min(lastCall.limit, Max(0, total - lastCall.offset))
       /\ \A i \in 1..Len(result) :
            /\ result[i].id \in DOMAIN files
            /\ result[i] = files[result[i].id]
            /\ Rank(result[i].id) = lastCall.offset + i - 1
       /\ \A i \in 1..(Len(result) - 1) :
            result[i].created_at >= result[i + 1].created_at

(* the second and third of three records, the newest of them inserted last,
   were listed *)
C18_Witness ==
  /\ lastCall.op = "getAllFiles"
  /\ lastCall.limit = 2 /\ lastCall.offset = 1
  /\ Cardinality(DOMAIN files) = 3
  /\ files[3].created_at > files[2].created_at
  /\ files[2].created_at = files[1].created_at
  /\ Len(lastCall.result) = 2
  /\ lastCall.result[1].id = 1
  /\ lastCall.result[2].id = 2

(* C19: for every integer limit and offset given to GET /api/files, negative
   ones and ones above the maximum included, the listing returns at most
   MaxLimit records, and a negative offset is treated as 0. *)
C19_ListingAtMostMaxLimit ==
  (lastCall.op = "GET /api/files" /\ lastCall.p = "done") =>
    /\ Len(lastCall.files) <= MaxLimit
    /\ (lastCall.offsetParam # Undefined /\ lastCall.offsetParam[1] < 0) =>
         lastCall.pagination.offset = 0

(* C20: updateProcessingStatus with an id that is not in the store raises no
   error, creates no record and leaves every record, the hash index and the
   stats as they were, for every status and chunk count passed. *)
C20_UpdateOfUnknownIdChangesNothing ==
  [][(Called("updateProcessingStatus") /\ lastCall'.id \notin DOMAIN files) =>
       /\ ~lastCall'.threw
       /\ lastCall'.id \notin DOMAIN files'
       /\ files' = files
       /\ hashIndex' = hashIndex
       /\ getStats' = getStats]_vars

(* an unknown id was set to completed with a chunk count while the store
   held records in two statuses *)
C20_Witness ==
  /\ lastCall.op = "updateProcessingStatus"
  /\ lastCall.before = "absent"
  /\ lastCall.id \notin DOMAIN files
  /\ lastCall.status = "completed"
  /\ lastCall.chunkCount = Some(MaxChunks)
  /\ Cardinality(DOMAIN files) = 2
  /\ files[1].processing_status # files[2].processing_status

HexDigits == {"0", "1", "2", "3", "4", "5", "6", "7", "8", "9",
              "a", "b", "c", "d", "e", "f"}

(* a string of 64 lowercase hexadecimal digits *)
IsDigest(h) == Len(h) = 64 /\ \A i \in 1..64 : SubSeq(h, i, i) \in HexDigits

(* C21: the digest depends on the bytes alone.  Whatever calls were made
   before and whatever the store held at each call, every call of
   computeFileHash returns a digest, two calls return the same digest exactly
   when they were given the same bytes, and every digest is a string of 64
   lowercase hexadecimal digits. *)
C21_HashOfBytesAlone ==
  lastCall.op = "computeFileHash" =>
    /\ \A i \in DOMAIN lastCall.calls :
         /\ ~lastCall.calls[i].threw
         /\ IsDigest(lastCall.calls[i].digest)
    /\ \A i, j \in DOMAIN lastCall.calls :
         lastCall.calls[i].buffer = lastCall.calls[j].buffer
           <=> lastCall.calls[i].digest = lastCall.calls[j].digest

(* the test's content was hashed for an empty store and again, after another
   content was hashed and stored, for a store that holds records; both calls
   returned the digest the test expects *)
C21_Witness ==
  /\ lastCall.op = "computeFileHash"
  /\ lastCall.n = 3
  /\ lastCall.calls[1].buffer = BufHello
  /\ lastCall.calls[2].buffer = BufContent1
  /\ lastCall.calls[3].buffer = BufHello
  /\ lastCall.calls[1].stored = 0
  /\ lastCall.calls[3].stored = 2
  /\ lastCall.calls[1].digest =
       "dffd6021bb2bd5b0af676290809ec3a53191dd81c7f70a4b28688a362182986f"
  /\ lastCall.calls[3].digest = lastCall.calls[1].digest

(* C22: after any sequence of store operations, the chunk count of a record
   is changed only by an updateProcessingStatus call whose new status is
   completed: insertFile creates the record without a chunk count, and an
   update to pending, processing or failed that carries a chunk count leaves
   the stored one unchanged. *)
C22_ChunkCountOnlyWithCompleted ==
  [][/\ (Called("insertFile") /\ ~lastCall'.threw) =>
          files'[lastCall'.id].chunk_count = Undefined
     /\ \A id \in DOMAIN files :
          files'[id].chunk_count # files[id].chunk_count =>
            /\ Called("updateProcessingStatus")
            /\ lastCall'.id = id
            /\ lastCall'.status = "completed"]_vars

(* the fields of a record that no operation writes after insertFile *)
Immutable(record) ==
  [ id |-> record.id, file_name |-> record.file_name,
    file_hash |-> record.file_hash, file_size |-> record.file_size,
    mime_type |-> record.mime_type, created_at |-> record.created_at ]

(* C23: updateProcessingStatus(id, ...) changes at most the status and the
   chunk count of the record with that id: no other record changes, none is
   added or removed and the hash index stays; and in every step of the store
   the id, name, hash, size, content type and creation date of every stored
   record stay as they were at its insertion. *)
C23_UpdateTouchesStatusAndChunksOnly ==
  [][/\ \A id \in DOMAIN files :
          id \in DOMAIN files' /\ Immutable(files'[id]) = Immutable(files[id])
     /\ Called("updateProcessingStatus") =>
          /\ DOMAIN files' = DOMAIN files
          /\ hashIndex' = hashIndex
          /\ \A id \in DOMAIN files \ {lastCall'.id} : files'[id] = files[id]]_vars

(* a stored record went from completed to failed with a new chunk count while
   another record, in another status, was stored *)
C23_Witness ==
  /\ lastCall.op = "updateProcessingStatus"
  /\ lastCall.id \in DOMAIN files
  /\ lastCall.before = "completed"
  /\ lastCall.status = "failed"
  /\ lastCall.chunkCount # Undefined
  /\ lastCall.chunkCount # lastCall.beforeChunk
  /\ \E other \in DOMAIN files \ {lastCall.id} :
       files[other].processing_status \notin {"completed", "failed"}

(* C26: updateProcessingStatus applied to a record that already has the
   terminal status passed, with the chunk count the record already has,
   raises no error and leaves the records, the hash index and the stats
   exactly as they were. *)
C26_SameTerminalUpdateIsNoOp ==
  [][(/\ Called("updateProcessingStatus")
      /\ lastCall'.id \in DOMAIN files
      /\ lastCall'.status \in Terminal
      /\ files[lastCall'.id].processing_status = lastCall'.status
      /\ files[lastCall'.id].chunk_count = lastCall'.chunkCount) =>
       /\ ~lastCall'.threw
       /\ files' = files
       /\ hashIndex' = hashIndex
       /\ getStats' = getStats]_vars

(* a record completed with a chunk count above zero was set to completed
   again with that chunk count *)
C26_Witness ==
  /\ lastCall.op = "updateProcessingStatus"
  /\ lastCall.id \in DOMAIN files
  /\ lastCall.before = "completed"
  /\ lastCall.status = "completed"
  /\ lastCall.chunkCount = lastCall.beforeChunk
  /\ lastCall.chunkCount # Undefined
  /\ lastCall.chunkCount[1] > 0

(* C27: in the state updateProcessingStatus(id, s, c) leaves when id is
   stored, findById(id) has status s and chunk count c, or the chunk count it
   had before the call when c is not passed, and the stats count for s is at
   least one and counts that record. *)
C27_UpdateIsReadBack ==
  (lastCall.op = "updateProcessingStatus" /\ lastCall.before # "absent") =>
    LET record == findById(lastCall.id)
        count == StatOf(getStats, lastCall.status)
    IN /\ record # 0
       /\ files[record].processing_status = lastCall.status
       /\ files[record].chunk_count =
            IF lastCall.chunkCount # Undefined
              THEN lastCall.chunkCount
              ELSE lastCall.beforeChunk
       /\ count = CountStatus(lastCall.status)
       /\ CountStatus(lastCall.status) >= 1

(* a record with a chunk count was set to another status without a chunk
   count *)
C27_Witness ==
  /\ lastCall.op = "updateProcessingStatus"
  /\ lastCall.id \in DOMAIN files
  /\ lastCall.chunkCount = Undefined
  /\ lastCall.beforeChunk # Undefined
  /\ lastCall.before # lastCall.status
  /\ files[lastCall.id].chunk_count = lastCall.beforeChunk

(* C25: in every state of the store the hash index and the record map
   agree: the index maps a hash h to an id i exactly when the record with id
   i is stored and has hash h, and the index has as many entries as there
   are records. *)
C25_IndexAgreesWithRecords ==
  /\ \A h \in DOMAIN hashIndex :
       hashIndex[h] \in DOMAIN files /\ files[hashIndex[h]].file_hash = h
  /\ \A i \in DOMAIN files :
       files[i].file_hash \in DOMAIN hashIndex /\ hashIndex[files[i].file_hash] = i
  /\ Cardinality(DOMAIN hashIndex) = Cardinality(DOMAIN files)

(* two records are stored, one of them was updated, and an insert of a hash
   already stored has just been rejected *)
C25_Witness ==
  /\ lastCall.op = "insertFile"
  /\ lastCall.threw
  /\ Cardinality(DOMAIN files) = 2
  /\ Cardinality(DOMAIN hashIndex) = 2
  /\ \E i \in DOMAIN files : files[i].processing_status = "failed"

NonTerminal == Statuses \ Terminal

(* C24: the upload of new content returns without waiting for the job.  In
   the step that produces the response of a new record, the record and the
   status reported are pending or processing and the job has not ended; and
   a record takes a terminal status only in a step after the response of the
   request that created it. *)
C24_ResponseBeforeJobEnds ==
  [][/\ \A r \in Requests :
          (Responds(r) /\ response'[r].http = 200 /\ ~response'[r].duplicate) =>
            /\ newFile[r] \in DOMAIN files'
            /\ files'[newFile[r]].processing_status \in NonTerminal
            /\ response'[r].file.processingStatus \in NonTerminal
            /\ JobRunning(newFile[r])'
     /\ \A id \in DOMAIN files :
          (/\ files[id].processing_status \in NonTerminal
           /\ files'[id].processing_status \in Terminal) =>
            \E r \in Requests :
              /\ newFile[r] = id
              /\ Answered(r)
              /\ ~response[r].duplicate
              /\ response[r].file.processingStatus \in NonTerminal]_vars

(* the response of a new record said processing, and the record has since
   been set to failed by a job that threw *)
C24_Witness ==
  \E r \in Requests :
    /\ Succeeded(r) /\ ~response[r].duplicate
    /\ response[r].file.processingStatus = "processing"
    /\ JobOver(newFile[r])
    /\ job[newFile[r]].threw
    /\ files[newFile[r]].processing_status = "failed"

(* the requests that have returned a new record *)
Created == {r \in Requests : Succeeded(r) /\ ~response[r].duplicate}

(* the jobs are those of the records returned as new, one request each, and
   no two jobs are for the same hash *)
JobsMatchRecords ==
  /\ DOMAIN job = {newFile[r] : r \in Created}
  /\ DOMAIN job \subseteq DOMAIN files
  /\ \A r, q \in Created : r # q => newFile[r] # newFile[q]
  /\ \A i, j \in DOMAIN job : i # j => files[i].file_hash # files[j].file_hash

(* C28: over every interleaving of uploads, a job is started in exactly the
   steps that return a new record, for that record, which has no job yet; a
   request that returns a duplicate or an error starts none; a job once
   started is never started again; so every record returned as new has one
   job, and no hash is processed twice. *)
C28_OneJobPerRecord ==
  /\ []JobsMatchRecords
  /\ [][/\ \A r \in Requests :
             Responds(r) =>
               IF response'[r].http = 200 /\ ~response'[r].duplicate
                 THEN /\ newFile[r] \in DOMAIN files
                      /\ newFile[r] \notin DOMAIN job
                      /\ DOMAIN job' = DOMAIN job \cup {newFile[r]}
                      /\ JobRunning(newFile[r])'
                 ELSE job' = job
        /\ \A id \in DOMAIN job' \ DOMAIN job :
             \E r \in Requests : Responds(r) /\ newFile[r] = id
        /\ \A id \in DOMAIN job : JobRunning(id)' => JobRunning(id)]_vars

(* two uploads of the same bytes raced: one created the record, whose job
   has ended, the other was refused by insertFile, and there is one job *)
C28_Witness ==
  \E r, q \in Requests :
    /\ r \in Created
    /\ Answered(q) /\ response[q].http = 500
    /\ fileHash[q] = fileHash[r]
    /\ JobOver(newFile[r])
    /\ Cardinality(DOMAIN job) = 1

(* the chunks of a stream, put together in the order they came *)
RECURSIVE Concat(_)
Concat(chunks) ==
  IF chunks = <<>> THEN "" ELSE Head(chunks) \o Concat(Tail(chunks))

(* C29: for every content and every cut of it into chunks delivered in
   order, the digest computeStreamHash resolves with is the hash
   computeFileHash gives for the whole content. *)
C29_StreamHashEqualsFileHash ==
  lastCall.promise = "resolved" =>
    /\ Concat(lastCall.chunks) = Bytes(lastCall.buffer)
    /\ lastCall.digest = computeFileHash(lastCall.buffer)

(* "Hello, World!" came in at least three chunks of different lengths and
   the promise is resolved *)
C29_Witness ==
  /\ lastCall.promise = "resolved"
  /\ lastCall.buffer = BufHello
  /\ Len(lastCall.chunks) >= 3
  /\ \E i, j \in DOMAIN lastCall.chunks :
       Len(lastCall.chunks[i]) > Len(lastCall.chunks[j]) /\ Len(lastCall.chunks[j]) >= 2

(* C30: when the stream fails, after any number of chunks and before its
   end, the promise of computeStreamHash is rejected with that error and has
   no digest; a digest is produced only when the stream has ended, and then
   from all the content; while the stream flows the promise is pending. *)
C30_FailedStreamYieldsNoDigest ==
  /\ lastCall.stream = "errored" =>
       /\ lastCall.promise = "rejected"
       /\ lastCall.reason = lastCall.streamError
       /\ lastCall.digest = ""
  /\ (lastCall.digest # "" \/ lastCall.promise = "resolved") =>
       /\ lastCall.stream = "ended"
       /\ lastCall.promise = "resolved"
       /\ lastCall.hashed = Bytes(lastCall.buffer)
  /\ lastCall.stream = "flowing" => lastCall.promise = "pending"

(* the stream failed after two chunks or more, with content left to read *)
C30_Witness ==
  /\ lastCall.stream = "errored"
  /\ lastCall.promise = "rejected"
  /\ Len(lastCall.chunks) >= 2
  /\ lastCall.sent > 0
  /\ lastCall.sent < Len(Bytes(lastCall.buffer))

(* a hash of exactly 64 hexadecimal characters, in either letter case *)
WellFormed(hash) ==
  /\ Len(hash) = 64
  /\ \A i \in 1..64 :
       SubSeq(hash, i, i) \in HexDigits \cup {"A", "B", "C", "D", "E", "F"}

(* the lower-case form of the well-formed hashes requested *)
LowerCased(hash) ==
  CASE hash = "D0B425E00E15A0D36B9B361F02BAB63563AED6CB4665083905386C55D5B679FA"
         -> "d0b425e00e15a0d36b9b361f02bab63563aed6cb4665083905386c55d5b679fa"
    [] hash = "Ae544b54AdE5B778321d1dCd047cA3B9Ec3048AfBd4bE53dF976D600Dd16B2Fe"
         -> "ae544b54ade5b778321d1dcd047ca3b9ec3048afbd4be53df976d600dd16b2fe"
    [] hash = "DFFD6021BB2BD5B0AF676290809EC3A53191DD81C7F70A4B28688A362182986F"
         -> "dffd6021bb2bd5b0af676290809ec3a53191dd81c7f70a4b28688a362182986f"
    [] OTHER -> hash

(* C31: the check-duplicate request with a hash that is not exactly 64
   hexadecimal characters is answered 400 with the invalid-format error and
   never calls findByHash; with a well-formed hash in either letter case it
   looks up the lower-cased hash and answers duplicate=true with the record
   exactly when a record with the lower-cased hash is stored at the lookup;
   no step of the request changes the records or the hash index. *)
C31_CheckDuplicateLooksUpLowerCase ==
  [][/\ lastCall'.n # lastCall.n =>
          IF ~WellFormed(lastCall'.hash)
            THEN /\ lastCall'.pc = "done"
                 /\ lastCall'.lookup = Undefined
                 /\ lastCall'.response = ErrorResponse(400, InvalidHashFormat)
            ELSE /\ lastCall'.pc = "found"
                 /\ lastCall'.lookup = Some(LowerCased(lastCall'.hash))
                 /\ \/ /\ lastCall'.existingFile \in DOMAIN files
                       /\ files[lastCall'.existingFile].file_hash =
                            LowerCased(lastCall'.hash)
                    \/ /\ lastCall'.existingFile = 0
                       /\ \A id \in DOMAIN files :
                            files[id].file_hash # LowerCased(lastCall'.hash)
     /\ (lastCall.pc = "found" /\ lastCall'.pc = "done") =>
          /\ lastCall'.response.http = 200
          /\ lastCall'.response.duplicate = (lastCall.existingFile # 0)
          /\ lastCall.existingFile # 0 =>
               /\ lastCall'.response.file.id = lastCall.existingFile
               /\ lastCall'.response.file.hash = LowerCased(lastCall.hash)
               /\ lastCall'.response.file.name = files[lastCall.existingFile].file_name
     /\ lastCall' # lastCall => (files' = files /\ hashIndex' = hashIndex)]_vars

(* the second or a later request had a hash with upper-case letters and was
   answered with the record stored under its lower-case form, while two
   records or more were stored *)
C31_Witness ==
  /\ lastCall.n >= 2
  /\ lastCall.pc = "done"
  /\ lastCall.hash # LowerCased(lastCall.hash)
  /\ lastCall.response.duplicate
  /\ lastCall.response.file.hash = LowerCased(lastCall.hash)
  /\ Cardinality(DOMAIN files) >= 2

(* C32: every record an upload creates is inserted with status pending, no
   chunk count, the hash and the byte length of the uploaded content, and a
   content type that is not empty: the declared type, or
   'application/octet-stream' when the declared type is empty. *)
C32_IngestInsertsPendingMetadata ==
  [][\A id \in DOMAIN files' \ DOMAIN files :
       \E r \in Requests :
         /\ newFile[r] = 0 /\ newFile'[r] = id
         /\ files'[id].processing_status = "pending"
         /\ files'[id].chunk_count = Undefined
         /\ files'[id].file_hash = SHA256(upload[r].buffer)
         /\ files'[id].file_size = ByteLength(upload[r].buffer)
         /\ files'[id].file_name = upload[r].name
         /\ files'[id].mime_type # ""
         /\ files'[id].mime_type =
              IF upload[r].type = "" THEN "application/octet-stream"
                                     ELSE upload[r].type]_vars

(* an upload that declared no type and one that declared a type have each
   created a record *)
C32_Witness ==
  \E r, q \in Requests :
    /\ newFile[r] \in DOMAIN files /\ upload[r].type = ""
    /\ files[newFile[r]].mime_type = "application/octet-stream"
    /\ newFile[q] \in DOMAIN files /\ upload[q].type = "application/pdf"
    /\ files[newFile[q]].mime_type = "application/pdf"

(* the number of whole 667-byte pieces in size, and 1 when there is none *)
IsChunkCountOf(count, size) ==
  \/ count = 1 /\ size < 2 * 667
  \/ count >= 2 /\ count * 667 <= size /\ size < (count + 1) * 667

(* C33: for every file size from 0 up, simulateRAGProcessing reports success
   with chunkCount = max(1, floor(size / 667)); the count is at least 1 and
   the larger of two files never gets the smaller count. *)
C33_ChunkCountFromSize ==
  /\ lastCall.n >= 1 =>
       /\ lastCall.smallResult.success
       /\ IsChunkCountOf(lastCall.smallResult.chunkCount, lastCall.small)
       /\ lastCall.smallResult.chunkCount >= 1
  /\ lastCall.n = 2 =>
       /\ lastCall.largeResult.success
       /\ IsChunkCountOf(lastCall.largeResult.chunkCount, lastCall.large)
       /\ lastCall.largeResult.chunkCount >= 1
       /\ lastCall.smallResult.chunkCount <= lastCall.largeResult.chunkCount

(* a file one byte short of two chunks got one chunk and a file of exactly
   two chunks got two *)
C33_Witness ==
  /\ lastCall.n = 2
  /\ lastCall.small = 2 * 667 - 1 /\ lastCall.smallResult.chunkCount = 1
  /\ lastCall.large = 2 * 667 /\ lastCall.largeResult.chunkCount = 2

(* C34: in every state of the uploads and their simulated jobs, a record has
   a chunk count exactly when its status is completed, and the chunk count
   of a completed record is at least 1. *)
C34_ChunkCountIffCompleted ==
  \A id \in DOMAIN files :
    /\ files[id].chunk_count # Undefined <=> files[id].processing_status = "completed"
    /\ files[id].processing_status = "completed" => files[id].chunk_count[1] >= 1

(* a record is completed with two chunks while another is still processing
   and has none *)
C34_Witness ==
  \E i, j \in DOMAIN files :
    /\ files[i].processing_status = "completed" /\ files[i].chunk_count = Some(2)
    /\ files[j].processing_status = "processing" /\ files[j].chunk_count = Undefined

(* the uploads answered as duplicates *)
Duplicates == {r \in Requests : Succeeded(r) /\ response[r].duplicate}

(* C35: whenever the stats endpoint answers, duplicatesSaved, which is
   totalFiles minus uniqueHashes, is 0, however many uploads were answered
   as duplicates. *)
C35_DuplicatesSavedIsZero ==
  (lastCall.op = "GET /api/stats" /\ lastCall.p = "done") =>
    /\ lastCall.response.stats.duplicatesSaved = 0
    /\ lastCall.response.stats.totalFiles = lastCall.response.stats.uniqueHashes

(* every upload after the first was answered as a duplicate of the one
   record stored, and the stats response counts that record, completed *)
C35_Witness ==
  /\ Cardinality(Duplicates) = NumJobRequests - 1
  /\ lastCall.op = "GET /api/stats"
  /\ lastCall.p = "done"
  /\ lastCall.response.stats.totalFiles = 1
  /\ lastCall.response.stats.duplicatesSaved = 0
  /\ "completed" \in DOMAIN lastCall.response.stats.processing

(* the ids the pages have returned *)
Seen == {lastCall.seen[i] : i \in DOMAIN lastCall.seen}

(* C36: a client that requests the listing with a fixed limit between 1 and
   100 at offsets 0, limit, 2*limit, ... while the last response had
   hasMore, with no insert in between, stops after finitely many requests;
   no record is returned twice, and when it stops the pages hold every
   record exactly once. *)
C36_PagingCoversEveryRecordOnce ==
  /\ <>(~lastCall.hasMore)
  /\ [](/\ Cardinality(Seen) = Len(lastCall.seen)
        /\ Seen \subseteq DOMAIN files
        /\ lastCall.n <= (Cardinality(DOMAIN files) \div lastCall.limit) + 1
        /\ ~lastCall.hasMore => Seen = DOMAIN files)

(* 102 records were listed in two pages of 100 and 2 *)
C36_Witness ==
  /\ ~lastCall.hasMore
  /\ lastCall.limit = MaxLimit
  /\ lastCall.n = 2
  /\ Len(lastCall.seen) = MaxLimit + 2
  /\ Cardinality(DOMAIN files) = MaxLimit + 2

(* 1024^k as a byte count *)
PowerOfBase(k) == [i \in 1..(k + 1) |-> IF i = k + 1 THEN 1 ELSE 0]

(* bytes >= 1024^k: bytes has more than k digits *)
AtLeastPower(bytes, k) == Len(bytes) > k

(* the number of times bytes is divided by 1024 while what is left is at
   least 1024 *)
Divisions(bytes) == Cardinality({k \in 1..MaxDigits : AtLeastPower(bytes, k)})

(* C37: formatFileSize returns for every non-negative integer byte count, with
   the unit of index min(4, number of divisions by 1024 made while the value
   is at least 1024); a count below 1024 is printed in B without decimals,
   and 1024^k, k = 1..4, is printed as 1.0 and the k-th unit after B. *)
C37_FormatFileSizeUnit ==
  /\ lastCall.n = 0 => ENABLED FormatFileSize
  /\ lastCall.n = 1 =>
       LET bytes == lastCall.bytes
           result == lastCall.result
       IN /\ result.unit = Units[Min(4, Divisions(bytes)) + 1]
          /\ Len(bytes) <= 1 =>
               /\ result.unit = "B"
               /\ result.decimals = <<>>
               /\ result.whole = (IF bytes = <<>> THEN 0 ELSE bytes[1])
          /\ \A k \in 1..4 :
               bytes = PowerOfBase(k) =>
                 result = [whole |-> 1, decimals |-> <<0>>, unit |-> Units[k + 1]]

C37_Witness ==
  /\ lastCall.n = 1
  /\ lastCall.bytes = PowerOfBase(4)
  /\ lastCall.result = [whole |-> 1, decimals |-> <<0>>, unit |-> "TB"]

====
